---- MODULE Spec2Model ----
(***************************************************************************)
(* Model of the compliance core: the hash-chained, day-partitioned audit   *)
(* log (compliance/audit_logger.py) and the consent store with expiration- *)
(* driven retention (compliance/consent_manager.py).                       *)
(*                                                                         *)
(* Time is a discrete clock `now` counted in ticks, TicksPerDay ticks to a *)
(* calendar day.  An audit partition (one audit_log_<date>.jsonl file) is  *)
(* identified by its day number.  Python's None is the empty tuple; an     *)
(* optional value x is <<x>>.  A dict is a TLA+ function on string keys.   *)
(* A resource string is the tuple of its path components.                  *)
(***************************************************************************)
EXTENDS Integers, Sequences, FiniteSets, TLC

-----------------------------------------------------------------------------
(* Bounds of the model *)

TicksPerDay == 2

MaxNow == 4

MaxEvents == 3

MaxRetentionArg == 2

\* The largest limit a query is given
MaxLimit == 2

\* The most lines that no log_event wrote
MaxMalformed == 1

-----------------------------------------------------------------------------
(* Values *)

None == <<>>

Some(x) == <<x>>

\* dict.get(key) with the default None
DictGet(d, k) == IF k \in DOMAIN d THEN Some(d[k]) ELSE None

EmptyDict == [k \in {} |-> 0]

\* datetime.isoformat(): the ISO string of time t read from a clock whose microsecond
\* is not 0, YYYY-MM-DDTHH:MM:SS.ffffff
isoformat(t) == <<"iso", t>>

\* datetime.isoformat() of a time whose microsecond is 0, YYYY-MM-DDTHH:MM:SS
isoformat_seconds(t) == <<"iso", t, "seconds">>

\* datetime.fromisoformat(s): the time, or None where Python raises ValueError
fromisoformat(s) == IF Len(s) \in {2, 3} /\ s[1] = "iso" THEN Some(s[2]) ELSE None

Subjects == {"e1", "e2"}

\* ConsentManager.default_retention_days
DefaultRetentionDays == 90

\* The arguments of the set_consent calls made by outside callers
SetArgs ==
    { [monitoring_enabled |-> TRUE, retention_days |-> Some(1), data_categories |-> None,
       requester_id |-> "system", data_retention_days |-> None, allow_analytics |-> None],
      [monitoring_enabled |-> FALSE, retention_days |-> Some(2), data_categories |-> Some(<<"email">>),
       requester_id |-> "admin", data_retention_days |-> Some(1), allow_analytics |-> Some(FALSE)],
      [monitoring_enabled |-> TRUE, retention_days |-> None, data_categories |-> Some(<<>>),
       requester_id |-> "admin", data_retention_days |-> None, allow_analytics |-> Some(TRUE)] }

\* A record found in the store whose expiration_date does not parse
InvalidRecord(employee_id) ==
    [ employee_id |-> employee_id, monitoring_enabled |-> TRUE, retention_days |-> 1,
      data_retention_days |-> 1, allow_analytics |-> TRUE,
      expiration_date |-> <<"not-a-date">>, data_categories |-> <<"all">>,
      last_updated |-> isoformat(0), last_updated_by |-> "system" ]

\* The arguments of the log_event calls made by outside callers
LogArgs ==
    { [user_id |-> "user1", action |-> "login", resource |-> <<"system">>,
       details |-> None, status |-> "success"],
      [user_id |-> "user2", action |-> "data_access", resource |-> <<"customer_data">>,
       details |-> Some([ip_address |-> "10.0.0.1", user_agent |-> "curl"]),
       status |-> "denied"] }

VARIABLES
    now,        \* the clock, in ticks
    logs,       \* day -> sequence of stored lines; DOMAIN logs = the partition files that exist
                \* (a last line with the field unterminated has no newline after it)
    nextId,     \* number of event ids handed out so far (uuid4 never repeats)
    curFile,    \* ImmutableAuditLogger.current_log_file
    singleFile, \* TRUE: ConsentManager.consent_file is set (one JSON file); FALSE: a file per subject
    consents,   \* subject -> stored consent record; DOMAIN consents = the subjects stored
    fileOrder,  \* single-file mode: the subjects in the order the JSON file lists them
    torn,       \* consent file -> length of its text, for the files that do not parse now
                \* (opened with mode "w" and not yet written, or written over a longer
                \* text); consents keeps what such a file held when it last parsed
    ret,        \* the last completed call and what it returned
    pc,         \* caller -> where its call in progress stands ("idle": no call)
    loc,        \* caller -> the local variables of its call in progress
    hist        \* history: overlapped: two calls have been in progress at the same time;
                \* rolled: the date changed while a call was in progress;
                \* tampered: the partition in which a stored field was replaced, or None;
                \* written: subject -> the record its last set_consent wrote, for the
                \* subjects no sweep has removed since

logVars == <<logs, nextId, curFile>>

consentVars == <<singleFile, consents, fileOrder, torn>>

callVars == <<pc, loc, hist>>

vars == <<now, logs, nextId, curFile, singleFile, consents, fileOrder, torn, ret,
          pc, loc, hist>>

\* The callers whose calls are taken step by step
Loggers == {"l1", "l2"}

Setters == {"w1", "w2"}

Sweeper == "sweeper"

Pruner == "pruner"

\* The retention worker task of the API process
Worker == "worker"

Callers == Loggers \cup Setters \cup {Sweeper, Pruner, Worker}

-----------------------------------------------------------------------------
(* Audit log: pure parts *)

\* audit_log_<YYYY-MM-DD>.jsonl for the date of time t; the partition's day number
_get_log_filename(t) == t \div TicksPerDay

\* A file audit_log_<text>.jsonl whose <text> is not a date
UnparsableName == -1

\* cleanup_old_logs line 216: datetime.strptime of the date in the file name, None
\* where it raises ValueError
file_date(f) == IF f = UnparsableName THEN None ELSE Some(f)

\* datetime.strptime(<date of the file name>).timestamp(): midnight of that day
file_timestamp(f) == f * TicksPerDay

\* hashlib.sha256 of the given data, treated as collision-free
Sha256(data) == <<"sha256", data>>

\* The keys of a log entry in the order json.dumps(sort_keys=True) writes them
SortedEntryKeys ==
    << "action", "details", "event_id", "hash", "ip_address", "prev_hash",
       "resource", "status", "timestamp", "user_agent", "user_id" >>

\* JsonSorted over the identifying fields only
JsonSorted_core(entry) ==
    LET keys == SelectSeq(SortedEntryKeys,
                          LAMBDA k : k \in DOMAIN entry \ {"ip_address", "user_agent"})
    IN  [i \in 1..Len(keys) |-> <<keys[i], entry[keys[i]]>>]

\* json.dumps(entry, sort_keys=True): the key/value pairs in sorted key order
JsonSorted(entry) ==
    LET keys == SelectSeq(SortedEntryKeys, LAMBDA k : k \in DOMAIN entry)
    IN  [i \in 1..Len(keys) |-> <<keys[i], entry[keys[i]]>>]

\* The empty string, where a hash or None is expected
EmptyStr == <<"">>

\* lines 47-51: the digest of prev_hash, when it is neither None nor empty, followed
\* by the entry's sorted JSON
_compute_hash(prev_hash, entry) ==
    Sha256(<< IF prev_hash \notin {None, EmptyStr} THEN prev_hash ELSE <<>>,
              JsonSorted(entry) >>)

\* Stored lines that log_event did not write: a blank line, text that json.loads
\* rejects, a JSON value that is not an object, a JSON object that is not an entry
MalformedLines ==
    { [malformed |-> "blank"], [malformed |-> "text"], [malformed |-> "value"],
      [note |-> "x"] }

\* line.strip() is empty
IsBlank(line) == "malformed" \in DOMAIN line /\ line.malformed = "blank"

\* json.loads(line.strip()) raises JSONDecodeError
IsInvalidJson(line) == "malformed" \in DOMAIN line /\ line.malformed \in {"blank", "text"}

\* json.loads(line.strip()) returns a value without a get method
IsNotObject(line) == "malformed" \in DOMAIN line /\ line.malformed = "value"

\* The last hash of the partition of the date of time t
_get_last_hash(L, t) ==
    LET f == _get_log_filename(t)
    IN  IF f \notin DOMAIN L THEN None
        ELSE LET lines == SelectSeq(L[f], LAMBDA line : ~IsBlank(line))
             IN  IF Len(lines) = 0 THEN None
                 ELSE LET obj == lines[Len(lines)]
                      IN  IF "hash" \in DOMAIN obj THEN obj.hash ELSE None

\* log_event lines 97-107: the entry before it is chained
log_entry(event_id, t, a) ==
    [ event_id   |-> event_id,
      timestamp  |-> isoformat(t),
      user_id    |-> a.user_id,
      action     |-> a.action,
      resource   |-> a.resource,
      status     |-> a.status,
      details    |-> IF a.details # None /\ a.details[1] # EmptyDict
                     THEN a.details[1] ELSE EmptyDict,
      ip_address |-> IF a.details # None /\ a.details[1] # EmptyDict
                     THEN DictGet(a.details[1], "ip_address") ELSE None,
      user_agent |-> IF a.details # None /\ a.details[1] # EmptyDict
                     THEN DictGet(a.details[1], "user_agent") ELSE None ]

\* log_event lines 118-119: prev_hash is stored, then the hash over the entry with it
chained(prev_hash, e) ==
    LET e1 == e @@ [prev_hash |-> prev_hash]
    IN  e1 @@ [hash |-> _compute_hash(prev_hash, e1)]

\* append_line with the file opened in mode "w"
append_line_truncating(L, f, e) ==
    [g \in DOMAIN L \cup {f} |-> IF g = f THEN <<e>> ELSE L[g]]

\* Text that json.loads rejects: the start of a line cut before its end, or a line
\* that follows another without a newline between them
CutLine == [malformed |-> "text"]

\* The file exists and its text does not end with a newline
ends_unterminated(L, f) ==
    /\ f \in DOMAIN L
    /\ L[f] # <<>>
    /\ "unterminated" \in DOMAIN L[f][Len(L[f])]

\* open(file, "a") and one written line: the text is put after what the file holds,
\* so it continues a last line that has no newline
append_line(L, f, e) ==
    IF ends_unterminated(L, f) THEN [L EXCEPT ![f][Len(L[f])] = CutLine]
    ELSE IF f \in DOMAIN L THEN [L EXCEPT ![f] = Append(@, e)]
    ELSE L @@ (f :> <<e>>)

\* open(file, "a") and a write that raises after it has stored text without its
\* newline
write_partial(L, f, text) ==
    LET without_newline(line) == line @@ [unterminated |-> TRUE]
    IN  IF ends_unterminated(L, f)
        THEN [L EXCEPT ![f][Len(L[f])] = without_newline(CutLine)]
        ELSE IF f \in DOMAIN L THEN [L EXCEPT ![f] = Append(@, without_newline(text))]
        ELSE L @@ (f :> <<without_newline(text)>>)

\* Where a log_event call can raise: at the mkdir of line 110, at the open of line
\* 120, or at the write of line 121 with nothing of the line stored, with a part of
\* it stored, or with all of it stored but its newline
AppendFaults == {"mkdir", "open", "empty", "cut", "no_newline"}

\* log_event as one step at time t: the logs after it
log_event(L, t, event_id, a) ==
    append_line(L, _get_log_filename(t),
                chained(_get_last_hash(L, t), log_entry(event_id, t, a)))

\* log_event lines 94-126 at time t with an append that can raise; st holds the logs,
\* the number of event ids used (id) and current_log_file (cur), append is "ok" or
\* the place where the call raises.  Line 113 sets current_log_file before the
\* append; the id of an entry of which nothing readable is stored is not counted
log_event_io(st, t, a, append) ==
    LET f == _get_log_filename(t)
        e == chained(_get_last_hash(st.logs, t), log_entry(st.id, t, a))
    IN  CASE append = "ok" ->
               [st EXCEPT !.logs = append_line(@, f, e), !.id = @ + 1, !.cur = f]
          [] append = "mkdir" -> st
          [] append = "open" -> [st EXCEPT !.cur = f]
          [] append = "empty" ->
               [st EXCEPT !.logs = IF f \in DOMAIN @ THEN @ ELSE @ @@ (f :> <<>>),
                          !.cur = f]
          [] append = "cut" ->
               [st EXCEPT !.logs = write_partial(@, f, CutLine), !.cur = f]
          [] append = "no_newline" ->
               [st EXCEPT !.logs = write_partial(@, f, e), !.id = @ + 1, !.cur = f]

\* get_logs lines 154-158: a key of filters replaces the argument of that name
merged(filters, key, value) ==
    IF filters # None /\ key \in DOMAIN filters[1] THEN Some(filters[1][key]) ELSE value

\* in_date_range with the two ends left out
in_date_range_exclusive(f, start_date, end_date) ==
    /\ ~(start_date # None /\ f # UnparsableName /\ f <= start_date[1])
    /\ ~(end_date # None /\ (f = UnparsableName \/ f >= end_date[1]))

\* get_logs lines 161-170: the text of the file name after the last underscore is
\* neither before start_date nor after end_date, compared as strings: dates in
\* YYYY-MM-DD compare the way the days do, and a text that is not a date (it
\* begins with a letter) comes after every date
in_date_range(f, start_date, end_date) ==
    /\ ~(start_date # None /\ f # UnparsableName /\ f < start_date[1])
    /\ ~(end_date # None /\ (f = UnparsableName \/ f > end_date[1]))

\* logs[:limit] for a limit that is not negative
py_slice(found, limit) ==
    SubSeq(found, 1, IF limit < Len(found) THEN limit ELSE Len(found))

\* line.strip(): the text of a stored line, with or without its newline
stripped(line) == [k \in DOMAIN line \ {"unterminated"} |-> line[k]]

\* The lines of the files in the order given
RECURSIVE read_files(_, _)
read_files(L, files) ==
    IF files = <<>> THEN <<>>
    ELSE (IF Head(files) \in DOMAIN L
          THEN [i \in DOMAIN L[Head(files)] |-> stripped(L[Head(files)][i])]
          ELSE <<>>)
         \o read_files(L, Tail(files))

\* get_logs lines 173-197: the loop over the lines; AttributeError is not caught
RECURSIVE scan_lines(_, _, _, _, _)
scan_lines(lines, found, user_id, action, limit) ==
    IF lines = <<>> THEN [raised |-> FALSE, val |-> py_slice(found, limit)]
    ELSE LET entry == Head(lines)
         IN  IF IsInvalidJson(entry)
             THEN scan_lines(Tail(lines), found, user_id, action, limit)
             ELSE IF IsNotObject(entry) /\ (user_id # None \/ action # None)
             THEN [raised |-> TRUE, val |-> <<>>]
             ELSE IF ~IsNotObject(entry) /\ user_id # None
                     /\ DictGet(entry, "user_id") # user_id
             THEN scan_lines(Tail(lines), found, user_id, action, limit)
             ELSE IF ~IsNotObject(entry) /\ action # None
                     /\ DictGet(entry, "action") # action
             THEN scan_lines(Tail(lines), found, user_id, action, limit)
             ELSE IF Len(found) + 1 >= limit
             THEN [raised |-> FALSE, val |-> py_slice(Append(found, entry), limit)]
             ELSE scan_lines(Tail(lines), Append(found, entry), user_id, action, limit)

\* get_logs lines 148-197; files is the order in which glob lists the partitions
get_logs(L, files, a) ==
    LET user_id    == merged(a.filters, "user_id", a.user_id)
        action     == merged(a.filters, "action", a.action)
        start_date == merged(a.filters, "start_date", a.start_date)
        end_date   == merged(a.filters, "end_date", a.end_date)
        log_files  == SelectSeq(files, LAMBDA f : in_date_range(f, start_date, end_date))
    IN  scan_lines(read_files(L, log_files), <<>>, user_id, action, a.limit)

\* Path.unlink
unlink(L, f) == [g \in DOMAIN L \ {f} |-> L[g]]

\* is_old with <= for <
is_old_inclusive(f, cutoff) == file_date(f) # None /\ file_timestamp(f) <= cutoff

\* cleanup_old_logs lines 216-217: the date of the file name parses and is before
\* the cutoff (a name whose date does not parse raises ValueError, which line 230
\* catches: the file is left alone)
is_old(f, cutoff) == file_date(f) # None /\ file_timestamp(f) < cutoff

\* cleanup_old_logs lines 219-224: the deletion event of file f
delete_event_args(f, retention_days) ==
    [ user_id |-> "system", action |-> "delete", resource |-> <<"audit_log", f>>,
      details |-> Some([reason |-> "retention_policy", retention_days |-> retention_days]),
      status |-> "success" ]

\* cleanup_old_logs lines 214-231: the loop over the globbed files, in the order
\* the directory scan gave them; st = [logs, id, count]
RECURSIVE cleanup_loop(_, _, _, _, _)
cleanup_loop(st, files, cutoff, t, retention_days) ==
    IF files = <<>> THEN st
    ELSE LET f == Head(files)
         IN  IF is_old(f, cutoff)
             THEN cleanup_loop(
                      [ logs  |-> unlink(log_event(st.logs, t, st.id,
                                                   delete_event_args(f, retention_days)), f),
                        id    |-> st.id + 1,
                        count |-> st.count + 1 ],
                      Tail(files), cutoff, t, retention_days)
             ELSE cleanup_loop(st, Tail(files), cutoff, t, retention_days)

\* cleanup_old_logs lines 214-231 with a file name that may not parse (ValueError)
\* and a deletion event whose log_event call may raise (OSError): both are caught
\* and the file is left alone.  Fails are the files whose deletion event cannot be
\* written, the log_event call raising at the place fault; st holds the logs, the
\* number of event ids used, current_log_file and deleted_count
RECURSIVE cleanup_loop_io(_, _, _, _, _, _, _)
cleanup_loop_io(st, files, cutoff, t, retention_days, Fails, fault) ==
    IF files = <<>> THEN st
    ELSE LET f      == Head(files)
             append == IF f \in Fails THEN fault ELSE "ok"
             logged == log_event_io(st, t, delete_event_args(f, retention_days), append)
             after  == IF file_date(f) = None THEN st
                       ELSE IF ~is_old(f, cutoff) THEN st
                       ELSE IF append # "ok" THEN logged
                       ELSE [logged EXCEPT !.logs = unlink(@, f), !.count = @ + 1]
         IN  cleanup_loop_io(after, Tail(files), cutoff, t, retention_days, Fails, fault)

\* The orders in which a directory scan can list the files of S
ScanOrders(S) ==
    { s \in [1..Cardinality(S) -> S] : \A i, j \in DOMAIN s : s[i] = s[j] => i = j }

-----------------------------------------------------------------------------
(* Consent store: pure parts *)

\* effective_retention that prefers retention_days to the legacy argument
effective_retention_new_first(a) ==
    IF a.retention_days # None THEN a.retention_days[1]
    ELSE IF a.data_retention_days # None THEN a.data_retention_days[1]
    ELSE DefaultRetentionDays

\* set_consent lines 65-68
effective_retention(a) ==
    IF a.data_retention_days # None THEN a.data_retention_days[1]
    ELSE IF a.retention_days # None THEN a.retention_days[1]
    ELSE DefaultRetentionDays

\* set_consent line 80 and 108: data_categories or ["all"]
categories_or_all(a) ==
    IF a.data_categories # None /\ a.data_categories[1] # <<>>
    THEN a.data_categories[1] ELSE <<"all">>

\* set_consent lines 69-83: the record written, the clock read at t1 (line 69) and t2
\* (line 81); us1 and us2 say whether the microsecond of each read is not 0
consent_data(employee_id, a, t1, us1, t2, us2) ==
    [ employee_id         |-> employee_id,
      monitoring_enabled  |-> a.monitoring_enabled,
      retention_days      |-> effective_retention(a),
      data_retention_days |-> effective_retention(a),
      allow_analytics     |-> IF a.allow_analytics # None THEN a.allow_analytics[1] ELSE TRUE,
      expiration_date     |-> (IF us1
                               THEN isoformat(t1 + effective_retention(a) * TicksPerDay)
                               ELSE isoformat_seconds(t1 + effective_retention(a)
                                                             * TicksPerDay)),
      data_categories     |-> categories_or_all(a),
      last_updated        |-> (IF us2 THEN isoformat(t2) ELSE isoformat_seconds(t2)),
      last_updated_by     |-> a.requester_id ]

\* The number of characters json.dump writes for an integer that is not negative
RECURSIVE json_int(_)
json_int(n) == IF n < 10 THEN 1 ELSE 1 + json_int(n \div 10)

\* ... for a string: the characters and the two quotes
json_str(x) == Len(x) + 2

\* ... for a stored date: the 26 characters of datetime.isoformat() with microseconds
\* or the 19 characters without them, or the text that is not a date
json_date(d) ==
    IF Len(d) = 2 /\ d[1] = "iso" THEN 28
    ELSE IF Len(d) = 3 /\ d[1] = "iso" THEN 21
    ELSE json_str(d[1])

\* ... for a list of strings, with indent=2, its closing bracket at the given depth
RECURSIVE json_list_items(_, _)
json_list_items(xs, depth) ==
    IF xs = <<>> THEN 0
    ELSE 1 + 2 * (depth + 1) + json_str(Head(xs)) + json_list_items(Tail(xs), depth)

json_list(xs, depth) ==
    IF xs = <<>> THEN 2
    ELSE 1 + json_list_items(xs, depth) + (Len(xs) - 1) + 1 + 2 * depth + 1

\* ... for the value of key k of a consent record
json_value(k, v, depth) ==
    CASE k \in {"monitoring_enabled", "allow_analytics"} -> (IF v THEN 4 ELSE 5)
      [] k \in {"retention_days", "data_retention_days"}  -> json_int(v)
      [] k \in {"expiration_date", "last_updated"}        -> json_date(v)
      [] k = "data_categories"                            -> json_list(v, depth)
      [] OTHER                                            -> json_str(v)

\* ... for a consent record, with indent=2, its closing brace at the given depth
RECURSIVE json_record_items(_, _, _)
json_record_items(rec, K, depth) ==
    IF K = {} THEN 0
    ELSE LET k == CHOOSE x \in K : TRUE
         IN  1 + 2 * (depth + 1) + json_str(k) + 2 + json_value(k, rec[k], depth + 1)
               + json_record_items(rec, K \ {k}, depth)

json_record(rec, depth) ==
    IF DOMAIN rec = {} THEN 2
    ELSE 1 + json_record_items(rec, DOMAIN rec, depth)
           + (Cardinality(DOMAIN rec) - 1) + 1 + 2 * depth + 1

\* ... for the dict of all records, json.dump(all_data, f, indent=2)
RECURSIVE json_store_items(_, _)
json_store_items(C, K) ==
    IF K = {} THEN 0
    ELSE LET k == CHOOSE x \in K : TRUE
         IN  1 + 2 + json_str(k) + 2 + json_record(C[k], 1) + json_store_items(C, K \ {k})

json_store(C) ==
    IF DOMAIN C = {} THEN 2
    ELSE 1 + json_store_items(C, DOMAIN C) + (Cardinality(DOMAIN C) - 1) + 1 + 1

\* store_put that updates a stored record and keeps its data_categories
store_put_partial(C, employee_id, rec) ==
    [k \in DOMAIN C \cup {employee_id} |->
        IF k # employee_id THEN C[k]
        ELSE IF k \in DOMAIN C /\ "data_categories" \in DOMAIN C[k]
             THEN [rec EXCEPT !.data_categories = C[k].data_categories]
             ELSE rec]

\* store_put that leaves a record already stored as it is
store_put_if_absent(C, employee_id, rec) ==
    [k \in DOMAIN C \cup {employee_id} |-> IF k \in DOMAIN C THEN C[k] ELSE rec]

\* set_consent lines 86-98: the store after the record is written
store_put(C, employee_id, rec) ==
    [k \in DOMAIN C \cup {employee_id} |-> IF k = employee_id THEN rec ELSE C[k]]

\* all_data[employee_id] = ...: a new key goes to the end of the dict
order_put(order, employee_id) ==
    IF \E i \in DOMAIN order : order[i] = employee_id THEN order
    ELSE Append(order, employee_id)

\* store_remove that leaves the record where it is
store_remove_kept(C, employee_id) == C

\* all_data.pop(employee_id) / consent_path.unlink()
store_remove(C, employee_id) == [k \in DOMAIN C \ {employee_id} |-> C[k]]

order_remove(order, employee_id) == SelectSeq(order, LAMBDA k : k # employee_id)

\* set_consent lines 101-110
set_consent_event(employee_id, a) ==
    [ user_id |-> a.requester_id, action |-> "set_consent",
      resource |-> <<"employee", employee_id, "consent">>,
      details |-> Some([ monitoring_enabled |-> a.monitoring_enabled,
                         retention_days |-> effective_retention(a),
                         data_categories |-> categories_or_all(a) ]),
      status |-> "success" ]

\* get_consent lines 146-151
access_consent_event(employee_id) ==
    [ user_id |-> "system", action |-> "access_consent",
      resource |-> <<"employee", employee_id, "consent">>,
      details |-> Some([access_type |-> "read"]), status |-> "success" ]

\* apply_retention_policy lines 207-212 and 237-242
delete_consent_event(employee_id) ==
    [ user_id |-> "system", action |-> "delete_consent",
      resource |-> <<"employee", employee_id, "consent">>,
      details |-> Some([reason |-> "retention_policy_expired"]), status |-> "success" ]

\* is_expired with >= for >
is_expired_inclusive(rec, t) ==
    LET exp == fromisoformat(IF "expiration_date" \in DOMAIN rec
                             THEN rec.expiration_date ELSE <<>>)
    IN  IF exp = None THEN None ELSE Some(t >= exp[1])

\* datetime.now() > expiration_date of a record; None where fromisoformat raises
is_expired(rec, t) ==
    LET exp == fromisoformat(IF "expiration_date" \in DOMAIN rec
                             THEN rec.expiration_date ELSE <<>>)
    IN  IF exp = None THEN None ELSE Some(t > exp[1])

\* get_consent lines 130-152: the record or None
get_consent(C, employee_id) ==
    IF employee_id \in DOMAIN C THEN Some(C[employee_id]) ELSE None

\* is_monitoring_allowed that takes a record for expired from its expiration on
is_monitoring_allowed_inclusive(consent, t) ==
    IF consent = None \/ consent[1] = EmptyDict THEN FALSE
    ELSE IF is_expired_inclusive(consent[1], t) = None THEN FALSE
    ELSE IF is_expired_inclusive(consent[1], t)[1] THEN FALSE
    ELSE IF "monitoring_enabled" \in DOMAIN consent[1]
         THEN consent[1].monitoring_enabled ELSE FALSE

\* is_monitoring_allowed without the expiration check of lines 174-181
is_monitoring_allowed_unchecked(consent, t) ==
    IF consent = None \/ consent[1] = EmptyDict THEN FALSE
    ELSE IF "monitoring_enabled" \in DOMAIN consent[1]
         THEN consent[1].monitoring_enabled ELSE FALSE

\* is_monitoring_allowed lines 167-183, given what get_consent returned
is_monitoring_allowed(consent, t) ==
    IF consent = None \/ consent[1] = EmptyDict THEN FALSE
    ELSE IF is_expired(consent[1], t) = None THEN FALSE
    ELSE IF is_expired(consent[1], t)[1] THEN FALSE
    ELSE IF "monitoring_enabled" \in DOMAIN consent[1]
         THEN consent[1].monitoring_enabled ELSE FALSE

\* get_all_consents that keeps a record whose expiration_date does not parse
get_all_consents_lenient(C, keys, active_only, t) ==
    LET keep(k) == ~active_only \/ is_expired(C[k], t) # Some(TRUE)
    IN  [i \in 1..Len(SelectSeq(keys, keep)) |-> C[SelectSeq(keys, keep)[i]]]

\* get_all_consents that leaves the expired and the unparsable records out whatever
\* active_only is
get_all_consents_active(C, keys, active_only, t) ==
    LET keep(k) == is_expired(C[k], t) = Some(FALSE)
    IN  [i \in 1..Len(SelectSeq(keys, keep)) |-> C[SelectSeq(keys, keep)[i]]]

\* get_all_consents lines 277-310: the records in the order of the file or of the
\* directory scan, without the expired and the unparsable ones when active_only
get_all_consents(C, keys, active_only, t) ==
    LET keep(k) == ~active_only \/ is_expired(C[k], t) = Some(FALSE)
    IN  [i \in 1..Len(SelectSeq(keys, keep)) |-> C[SelectSeq(keys, keep)[i]]]

\* retention_loop that stops after the first record it deletes
RECURSIVE retention_loop_first(_, _, _)
retention_loop_first(st, keys, t) ==
    IF keys = <<>> THEN st
    ELSE IF is_expired(st.consents[Head(keys)], t) = Some(TRUE)
    THEN [ logs     |-> log_event(st.logs, t, st.id, delete_consent_event(Head(keys))),
           id       |-> st.id + 1,
           consents |-> store_remove(st.consents, Head(keys)),
           order    |-> order_remove(st.order, Head(keys)),
           count    |-> st.count + 1 ]
    ELSE retention_loop_first(st, Tail(keys), t)

\* apply_retention_policy lines 203-217 (single file) and 228-246 (directory): the
\* loop over the records in the order given; st = [logs, id, consents, order, count]
RECURSIVE retention_loop(_, _, _)
retention_loop(st, keys, t) ==
    IF keys = <<>> THEN st
    ELSE LET k == Head(keys)
             expired == is_expired(st.consents[k], t)
         IN  IF expired # None /\ expired[1]
             THEN retention_loop(
                      [ logs     |-> log_event(st.logs, t, st.id, delete_consent_event(k)),
                        id       |-> st.id + 1,
                        consents |-> store_remove(st.consents, k),
                        order    |-> order_remove(st.order, k),
                        count    |-> st.count + 1 ],
                      Tail(keys), t)
             ELSE retention_loop(st, Tail(keys), t)

\* record_retention that passes the default whatever the record holds
record_retention_default(rec) == DefaultRetentionDays

\* apply_retention_policy lines 219 and 250: consent_data.get("data_retention_days")
\* or consent_data.get("retention_days", self.default_retention_days)
record_retention(rec) ==
    IF "data_retention_days" \in DOMAIN rec /\ rec.data_retention_days # 0
    THEN rec.data_retention_days
    ELSE IF "retention_days" \in DOMAIN rec THEN rec.retention_days
    ELSE DefaultRetentionDays

\* apply_retention_policy lines 218-224 and 248-256: the calls the external logger
\* receives, one for each record of the loop whose expiration parses, in the order of
\* the loop
RECURSIVE external_calls(_, _, _)
external_calls(C, keys, t) ==
    IF keys = <<>> THEN <<>>
    ELSE (IF is_expired(C[Head(keys)], t) # None
          THEN << <<Head(keys), record_retention(C[Head(keys)])>> >>
          ELSE <<>>)
         \o external_calls(C, Tail(keys), t)

\* policies_applied: the calls that did not raise (Fails: the subjects for which the
\* external logger raises)
policies_applied(calls, Fails) ==
    Cardinality({i \in DOMAIN calls : calls[i][1] \notin Fails})

-----------------------------------------------------------------------------
(* Operations, each as one step with the clock standing still *)

Init ==
    /\ now = 0
    /\ logs = EmptyDict
    /\ nextId = 0
    /\ curFile = _get_log_filename(0)
    /\ singleFile \in BOOLEAN
    /\ consents \in {EmptyDict, [k \in {"e2"} |-> InvalidRecord(k)]}
    /\ fileOrder = IF singleFile /\ consents # EmptyDict THEN <<"e2">> ELSE <<>>
    /\ torn = EmptyDict
    /\ ret = [op |-> "init"]
    /\ pc = [c \in Callers |-> "idle"]
    /\ loc = [c \in Callers |-> EmptyDict]
    /\ hist = [overlapped |-> FALSE, rolled |-> FALSE, tampered |-> None,
               written |-> EmptyDict]

\* The audit log on its own, the consent store empty
InitAudit == Init /\ singleFile /\ consents = EmptyDict

\* Time passes
Tick ==
    /\ now < MaxNow
    /\ now' = now + 1
    /\ UNCHANGED <<logVars, consentVars, ret, callVars>>

\* ImmutableAuditLogger.log_event called from outside, the clock standing still
LogEvent(a) ==
    /\ nextId < MaxEvents
    /\ logs' = log_event(logs, now, nextId, a)
    /\ nextId' = nextId + 1
    /\ curFile' = _get_log_filename(now)
    /\ ret' = [op |-> "log_event", val |-> nextId]
    /\ UNCHANGED <<now, consentVars, callVars>>

\* ImmutableAuditLogger.cleanup_old_logs(retention_days), the clock standing still
CleanupOldLogs(retention_days, files) ==
    LET cutoff == now - retention_days * TicksPerDay
        n      == Cardinality({f \in DOMAIN logs : is_old(f, cutoff)})
        st     == cleanup_loop([logs |-> logs, id |-> nextId, count |-> 0],
                               files, cutoff, now, retention_days)
    IN  /\ nextId + n <= MaxEvents
        /\ logs' = st.logs
        /\ nextId' = st.id
        /\ curFile' = IF n > 0 THEN _get_log_filename(now) ELSE curFile
        /\ ret' = [op |-> "cleanup_old_logs", retention_days |-> retention_days,
                   val |-> st.count]
        /\ UNCHANGED <<now, consentVars, callVars>>

\* set_consent line 114: the returned dict, {**consent_data, "success": True}
set_consent_result(rec) == rec @@ [success |-> TRUE]

\* ConsentManager.set_consent(employee_id, ...)
SetConsent(employee_id, a) ==
    LET rec == consent_data(employee_id, a, now, TRUE, now, TRUE)
    IN  /\ nextId < MaxEvents
        /\ consents' = store_put(consents, employee_id, rec)
        /\ fileOrder' = IF singleFile THEN order_put(fileOrder, employee_id) ELSE fileOrder
        /\ logs' = log_event(logs, now, nextId, set_consent_event(employee_id, a))
        /\ nextId' = nextId + 1
        /\ curFile' = _get_log_filename(now)
        /\ ret' = [op |-> "set_consent", arg |-> employee_id, args |-> a,
                   val |-> set_consent_result(rec)]
        /\ hist' = [hist EXCEPT !.written =
                       [k \in DOMAIN @ \cup {employee_id} |->
                          IF k = employee_id THEN rec ELSE @[k]]]
        /\ UNCHANGED <<now, singleFile, torn, pc, loc>>

\* read_effect that writes the access_consent event only for a record that allows
\* monitoring
read_effect_allowed(employee_id) ==
    IF ~is_monitoring_allowed(get_consent(consents, employee_id), now)
    THEN UNCHANGED logVars
    ELSE /\ logs' = log_event(logs, now, nextId, access_consent_event(employee_id))
         /\ nextId' = nextId + 1
         /\ curFile' = _get_log_filename(now)

\* read_effect that writes the access_consent event before looking the record up
read_effect_always(employee_id) ==
    /\ logs' = log_event(logs, now, nextId, access_consent_event(employee_id))
    /\ nextId' = nextId + 1
    /\ curFile' = _get_log_filename(now)

\* What get_consent does to the audit log: one access_consent event for a found record
read_effect(employee_id) ==
    IF get_consent(consents, employee_id) = None
    THEN UNCHANGED logVars
    ELSE /\ logs' = log_event(logs, now, nextId, access_consent_event(employee_id))
         /\ nextId' = nextId + 1
         /\ curFile' = _get_log_filename(now)

\* ConsentManager.get_consent(employee_id)
GetConsent(employee_id) ==
    /\ get_consent(consents, employee_id) # None => nextId < MaxEvents
    /\ read_effect(employee_id)
    /\ ret' = [op |-> "get_consent", arg |-> employee_id,
               val |-> get_consent(consents, employee_id)]
    /\ UNCHANGED <<now, consentVars, callVars>>

\* ConsentManager.is_monitoring_allowed(employee_id)
IsMonitoringAllowed(employee_id) ==
    /\ get_consent(consents, employee_id) # None => nextId < MaxEvents
    /\ read_effect(employee_id)
    /\ ret' = [op |-> "is_monitoring_allowed", arg |-> employee_id,
               val |-> is_monitoring_allowed(get_consent(consents, employee_id), now)]
    /\ UNCHANGED <<now, consentVars, callVars>>

\* ConsentManager.get_all_consents(active_only); keys is the order of the JSON file
\* (single file) or of the directory scan
GetAllConsents(active_only, keys) ==
    /\ ret' = [op |-> "get_all_consents", arg |-> active_only,
               val |-> get_all_consents(consents, keys, active_only, now)]
    /\ UNCHANGED <<now, logVars, consentVars, callVars>>

\* ConsentManager.list_consents(): get_all_consents(active_only=False)
ListConsents(keys) ==
    /\ ret' = [op |-> "list_consents",
               val |-> get_all_consents(consents, keys, FALSE, now)]
    /\ UNCHANGED <<now, logVars, consentVars, callVars>>

\* ConsentManager.apply_retention_policy() without an external logger; keys is the
\* order of the JSON file (single file) or of the directory scan
ApplyRetentionPolicy(keys) ==
    LET st == retention_loop([logs |-> logs, id |-> nextId, consents |-> consents,
                              order |-> fileOrder, count |-> 0], keys, now)
    IN  /\ st.id <= MaxEvents
        /\ logs' = st.logs
        /\ nextId' = st.id
        /\ curFile' = IF st.count > 0 THEN _get_log_filename(now) ELSE curFile
        /\ consents' = st.consents
        /\ fileOrder' = st.order
        /\ ret' = [op |-> "apply_retention_policy", val |-> st.count]
        /\ hist' = [hist EXCEPT !.written =
                       [k \in DOMAIN @ \cap DOMAIN st.consents |-> @[k]]]
        /\ UNCHANGED <<now, singleFile, torn, pc, loc>>

\* ConsentManager.apply_retention_policy(external_logger); Fails is the set of
\* subjects for which external_logger.apply_retention_policy raises
ApplyRetentionPolicyExternal(keys, Fails) ==
    LET st    == retention_loop([logs |-> logs, id |-> nextId, consents |-> consents,
                                 order |-> fileOrder, count |-> 0], keys, now)
        calls == external_calls(consents, keys, now)
    IN  /\ st.id <= MaxEvents
        /\ logs' = st.logs
        /\ nextId' = st.id
        /\ curFile' = IF st.count > 0 THEN _get_log_filename(now) ELSE curFile
        /\ consents' = st.consents
        /\ fileOrder' = st.order
        /\ ret' = [op |-> "apply_retention_policy_external", calls |-> calls,
                   fails |-> Fails,
                   val |-> [success |-> TRUE,
                            policies_applied |-> policies_applied(calls, Fails)]]
        /\ hist' = [hist EXCEPT !.written =
                       [k \in DOMAIN @ \cap DOMAIN st.consents |-> @[k]]]
        /\ UNCHANGED <<now, singleFile, torn, pc, loc>>

-----------------------------------------------------------------------------
(* Storage that fails: a read or a write that raises *)

\* The file that holds the subject's record: consent_file, or <employee_id>.json
consent_path(employee_id) == IF singleFile THEN "consent_file" ELSE employee_id

\* The file that holds the subject's record does not parse now
Truncated(employee_id) == consent_path(employee_id) \in DOMAIN torn

\* What json.load gives a reader at this moment: the record of a file that does not
\* parse is not read
readable(C) == [k \in {e \in DOMAIN C : ~Truncated(e)} |-> C[k]]

\* set_consent lines 87-91, get_all_consents lines 278-282: the content of the single
\* file, or an empty dict when the open or the json.load raises
load_all(C, load_ok) == IF load_ok THEN C ELSE EmptyDict

\* The order of the keys of what load_all returns
load_order(order, load_ok) == IF load_ok THEN order ELSE <<>>

\* A failed call reported as a success without a value
raised_swallowed(op, employee_id) ==
    [op |-> op, arg |-> employee_id, raised |-> FALSE, val |-> None]

\* What a call that raised leaves in ret (io, added by the caller, is what the storage
\* did during the call)
raised(op, employee_id) ==
    [op |-> op, arg |-> employee_id, raised |-> TRUE, val |-> None]

\* ImmutableAuditLogger.log_event lines 94-126 with an append that can raise (append
\* is "ok" or the place where it does); the except clause of lines 124-126 logs the
\* error and raises again
LogEventIO(a, append) ==
    LET io == [write_ok |-> append = "ok", append |-> append]
        st == log_event_io([logs |-> logs, id |-> nextId, cur |-> curFile],
                           now, a, append)
    IN  /\ nextId < MaxEvents
        /\ logs' = st.logs
        /\ nextId' = st.id
        /\ curFile' = st.cur
        /\ ret' = IF append = "ok"
                  THEN [op |-> "log_event", arg |-> a, raised |-> FALSE,
                        val |-> Some(nextId), io |-> io]
                  ELSE raised("log_event", a) @@ [io |-> io]
        /\ UNCHANGED <<now, consentVars, callVars>>

\* ConsentManager.set_consent lines 85-114 with the storage able to fail: the read of
\* the single file (load_ok), the write of the store (write_ok) and the log_event
\* call (append).  A write of the store that fails raises at the open of line 92 or
\* 97 (kept is None, the file is as it was) or after it: the open has emptied the
\* file and kept[1] characters of the new text are in it, which do not parse
SetConsentIO(employee_id, a, load_ok, write_ok, kept, append) ==
    LET rec      == consent_data(employee_id, a, now, TRUE, now, TRUE)
        io       == [load_ok |-> load_ok, write_ok |-> write_ok, kept |-> kept,
                     log_ok |-> append = "ok", append |-> append]
        path     == consent_path(employee_id)
        all_data == IF singleFile THEN load_all(readable(consents), load_ok)
                    ELSE consents
        order    == IF singleFile
                    THEN load_order(IF torn = EmptyDict THEN fileOrder ELSE <<>>, load_ok)
                    ELSE fileOrder
        new_data == store_put(all_data, employee_id, rec)
        text_len == IF singleFile THEN json_store(new_data) ELSE json_record(rec, 0)
        st       == log_event_io([logs |-> logs, id |-> nextId, cur |-> curFile],
                                 now, set_consent_event(employee_id, a), append)
    IN  /\ nextId < MaxEvents
        /\ IF ~write_ok
           THEN /\ kept # None => kept[1] < text_len
                /\ torn' = IF kept = None THEN torn
                           ELSE [f \in DOMAIN torn \cup {path} |->
                                   IF f = path THEN kept[1] ELSE torn[f]]
                /\ UNCHANGED <<logVars, singleFile, consents, fileOrder, hist>>
                /\ ret' = raised("set_consent", employee_id) @@ [io |-> io]
           ELSE /\ consents' = new_data
                /\ fileOrder' = IF singleFile THEN order_put(order, employee_id) ELSE order
                /\ torn' = [f \in DOMAIN torn \ {path} |-> torn[f]]
                /\ hist' = [hist EXCEPT !.written =
                               [k \in DOMAIN @ \cup {employee_id} |->
                                  IF k = employee_id THEN rec ELSE @[k]]]
                /\ logs' = st.logs
                /\ nextId' = st.id
                /\ curFile' = st.cur
                /\ UNCHANGED singleFile
                /\ ret' = IF append = "ok"
                          THEN [op |-> "set_consent", arg |-> employee_id, args |-> a,
                                raised |-> FALSE, val |-> Some(set_consent_result(rec)),
                                io |-> io]
                          ELSE raised("set_consent", employee_id) @@ [io |-> io]
        /\ UNCHANGED <<now, pc, loc>>

\* ImmutableAuditLogger.cleanup_old_logs(retention_days) with deletion events whose
\* log_event call can raise, for the files Fails and at the place fault
CleanupOldLogsIO(retention_days, files, Fails, fault) ==
    LET cutoff == now - retention_days * TicksPerDay
        st     == cleanup_loop_io([logs |-> logs, id |-> nextId, cur |-> curFile,
                                   count |-> 0],
                                  files, cutoff, now, retention_days, Fails, fault)
    IN  /\ st.id <= MaxEvents
        /\ logs' = st.logs
        /\ nextId' = st.id
        /\ curFile' = st.cur
        /\ ret' = [op |-> "cleanup_old_logs", retention_days |-> retention_days,
                   raised |-> FALSE, fails |-> Fails, fault |-> fault,
                   val |-> st.count]
        /\ UNCHANGED <<now, consentVars, callVars>>

\* get_consent lines 131-152, the body of the try: it raises when the read of the
\* store (lines 132-134, 143-144) or the log_event call (lines 146-151) does; consent
\* is what the store holds for the subject
get_consent_body(employee_id, consent, load_ok, log_ok) ==
    IF ~load_ok \/ (consent # None /\ ~log_ok)
    THEN raised("get_consent", employee_id)
    ELSE [op |-> "get_consent", arg |-> employee_id, raised |-> FALSE, val |-> consent]

\* get_consent_except that lets the exception pass
get_consent_reraise(r) == r

\* get_consent lines 153-155: except Exception logs the error and returns None
get_consent_except(r) == IF r.raised THEN [r EXCEPT !.raised = FALSE, !.val = None] ELSE r

\* What get_consent does to the audit log when the read or the log_event call can
\* fail: log_event is called for a record that was read, and not when the read
\* fails or finds no record
read_effect_io(employee_id, load_ok, append) ==
    IF ~load_ok \/ get_consent(consents, employee_id) = None THEN UNCHANGED logVars
    ELSE LET st == log_event_io([logs |-> logs, id |-> nextId, cur |-> curFile], now,
                                access_consent_event(employee_id), append)
         IN  /\ logs' = st.logs
             /\ nextId' = st.id
             /\ curFile' = st.cur

\* ConsentManager.get_consent(employee_id) with storage that can fail
GetConsentFaulty(employee_id, load_ok, append) ==
    LET consent == get_consent(consents, employee_id)
    IN  /\ consent # None => nextId < MaxEvents
        /\ read_effect_io(employee_id, load_ok, append)
        /\ ret' = get_consent_except(get_consent_body(employee_id, consent, load_ok,
                                                       append = "ok"))
                    @@ [io |-> [load_ok |-> load_ok, log_ok |-> append = "ok",
                                append |-> append]]
        /\ UNCHANGED <<now, consentVars, callVars>>

\* ConsentManager.is_monitoring_allowed(employee_id) over a get_consent whose storage
\* can fail
IsMonitoringAllowedFaulty(employee_id, load_ok, append) ==
    LET got == get_consent_except(
                   get_consent_body(employee_id, get_consent(consents, employee_id),
                                    load_ok, append = "ok"))
        io  == [load_ok |-> load_ok, log_ok |-> append = "ok", append |-> append]
    IN  /\ get_consent(consents, employee_id) # None => nextId < MaxEvents
        /\ read_effect_io(employee_id, load_ok, append)
        /\ ret' = IF got.raised
                  THEN raised("is_monitoring_allowed", employee_id) @@ [io |-> io]
                  ELSE [op |-> "is_monitoring_allowed", arg |-> employee_id,
                        raised |-> FALSE, val |-> is_monitoring_allowed(got.val, now),
                        io |-> io]
        /\ UNCHANGED <<now, consentVars, callVars>>

\* ConsentManager.get_all_consents lines 274-310 with reads that can raise.  Fails
\* are the files whose open or json.load raises: the single file (lines 278-282,
\* nothing is listed) or the files of some subjects (lines 309-310, each of them is
\* skipped and the others are listed); a file that does not parse fails as well
GetAllConsentsIO(active_only, keys, Fails) ==
    LET read == [k \in {e \in DOMAIN readable(consents) : consent_path(e) \notin Fails}
                   |-> consents[k]]
    IN  /\ ret' = [op |-> "get_all_consents", arg |-> active_only,
                   val |-> get_all_consents(
                              read, SelectSeq(keys, LAMBDA k : k \in DOMAIN read),
                              active_only, now)]
        /\ UNCHANGED <<now, logVars, consentVars, callVars>>

-----------------------------------------------------------------------------
(* Queries of the audit log *)

\* The places <<partition, index>> of the stored entries that satisfy P
Places(L, P(_)) ==
    UNION { {<<d, i>> : i \in {j \in DOMAIN L[d] : P(L[d][j])}} : d \in DOMAIN L }

\* The date the queries name as start_date or end_date: the second day
QueryDay == 1

\* The arguments of the get_logs calls: a date range and a limit, one filter, or the
\* filters dict of the older callers
QueryArgs ==
    [ start_date : {None, Some(QueryDay)},
      end_date   : {None, Some(QueryDay)},
      user_id    : {None},
      action     : {None},
      limit      : 0..MaxLimit,
      filters    : {None} ]
    \cup
    [ start_date : {None}, end_date : {None},
      user_id    : {Some("user1")},
      action     : {None, Some("login")},
      limit      : {1, MaxLimit},
      filters    : {None} ]
    \cup
    [ start_date : {None}, end_date : {None}, user_id : {None}, action : {None},
      limit      : {MaxLimit},
      filters    : {Some([user_id |-> "user2"]), Some([action |-> "login"]),
                    Some([start_date |-> QueryDay, end_date |-> QueryDay])} ]

\* ImmutableAuditLogger.get_logs(...); files is the order in which glob lists the
\* partitions
GetLogs(a, files) ==
    /\ ret' = [op |-> "get_logs", args |-> a, files |-> files] @@ get_logs(logs, files, a)
    /\ UNCHANGED <<now, logVars, consentVars, callVars>>

\* Something other than log_event leaves a line in the current partition
WriteMalformed(line) ==
    /\ Cardinality(Places(logs, LAMBDA e : e \in MalformedLines)) < MaxMalformed
    /\ logs' = append_line(logs, _get_log_filename(now), line)
    /\ ret' = [op |-> "write_malformed"]
    /\ UNCHANGED <<now, nextId, curFile, consentVars, callVars>>

-----------------------------------------------------------------------------
(* Tampering with the stored log *)

\* The hashes stored anywhere in the log
StoredHashes == UNION {{L[i].hash : i \in DOMAIN L} : L \in {logs[d] : d \in DOMAIN logs}}

\* The values a stored field can be replaced by
TamperValues(field) ==
    CASE field = "event_id"   -> 0..MaxEvents
      [] field = "timestamp"  -> {isoformat(t) : t \in 0..MaxNow}
      [] field = "user_id"    -> {"user1", "user2", "system"}
      [] field = "action"     -> {"login", "data_access", "delete"}
      [] field = "resource"   -> {<<"system">>, <<"customer_data">>}
      [] field = "status"     -> {"success", "denied"}
      [] field = "details"    -> {EmptyDict,
                                  [ip_address |-> "10.0.0.1", user_agent |-> "curl"],
                                  [ip_address |-> "10.0.0.2", user_agent |-> "curl"]}
      [] field = "ip_address" -> {None, Some("10.0.0.1"), Some("10.0.0.2")}
      [] field = "user_agent" -> {None, Some("curl"), Some("wget")}
      [] field = "prev_hash"  -> {None, EmptyStr} \cup StoredHashes
      [] field = "hash"       -> {EmptyStr, Sha256(<<"forged">>)} \cup StoredHashes

\* Someone replaces one stored field of one stored entry by another value
Tamper(d, i, field, v) ==
    /\ hist.tampered = None
    /\ v # logs[d][i][field]
    /\ logs' = [logs EXCEPT ![d][i][field] = v]
    /\ hist' = [hist EXCEPT !.tampered = Some(d)]
    /\ ret' = [op |-> "tamper", partition |-> d, index |-> i, field |-> field]
    /\ UNCHANGED <<now, nextId, curFile, consentVars, pc, loc>>

-----------------------------------------------------------------------------
(* log_event step by step: callers interleave and the clock moves between steps *)

InProgress == {c \in Callers : pc[c] \notin {"idle", "done"}}

\* Time passes while calls may be in progress
TickDuringCalls ==
    /\ now < MaxNow
    /\ now' = now + 1
    /\ hist' = [hist EXCEPT !.rolled =
                   @ \/ (InProgress # {} /\
                         _get_log_filename(now + 1) # _get_log_filename(now))]
    /\ UNCHANGED <<logVars, consentVars, ret, pc, loc>>

\* log_event lines 94-107: the event id and the entry
LogBuild(c, a) ==
    /\ pc[c] = "idle"
    /\ nextId < MaxEvents
    /\ nextId' = nextId + 1
    /\ loc' = [loc EXCEPT ![c] = [entry |-> log_entry(nextId, now, a)]]
    /\ pc' = [pc EXCEPT ![c] = "built"]
    /\ hist' = [hist EXCEPT !.overlapped = @ \/ InProgress # {}]
    /\ UNCHANGED <<now, logs, curFile, consentVars, ret>>

\* log_event line 113: self.current_log_file = self._get_log_filename()
LogSetFile(c) ==
    /\ pc[c] = "built"
    /\ curFile' = _get_log_filename(now)
    /\ pc' = [pc EXCEPT ![c] = "named"]
    /\ UNCHANGED <<now, logs, nextId, consentVars, ret, loc, hist>>

\* log_event line 117: prev_hash = self._get_last_hash(), which asks the date again
LogReadLast(c) ==
    /\ pc[c] = "named"
    /\ loc' = [loc EXCEPT ![c] = [entry |-> loc[c].entry,
                                  prev_hash |-> _get_last_hash(logs, now)]]
    /\ pc' = [pc EXCEPT ![c] = "read"]
    /\ UNCHANGED <<now, logVars, consentVars, ret, hist>>

\* log_event lines 118-123: chain the entry and append it to self.current_log_file
LogAppend(c) ==
    /\ pc[c] = "read"
    /\ logs' = append_line(logs, curFile, chained(loc[c].prev_hash, loc[c].entry))
    /\ ret' = [op |-> "log_event", val |-> loc[c].entry.event_id]
    /\ loc' = [loc EXCEPT ![c] = EmptyDict]
    /\ pc' = [pc EXCEPT ![c] = "idle"]
    /\ UNCHANGED <<now, nextId, curFile, consentVars, hist>>

-----------------------------------------------------------------------------
(* set_consent and apply_retention_policy step by step; each caller makes one call *)

\* set_consent lines 65-83: the retention, the expiration and the record; us1 and us2
\* say whether the microsecond of each of the two clock reads is not 0
SetCompute(c, employee_id, a, us1, us2) ==
    /\ pc[c] = "idle"
    /\ loc' = [loc EXCEPT ![c] = [employee_id |-> employee_id, args |-> a,
                                  rec |-> consent_data(employee_id, a, now, us1, now, us2)]]
    /\ pc' = [pc EXCEPT ![c] = "computed"]
    /\ UNCHANGED <<now, logVars, consentVars, ret, hist>>

\* set_consent lines 65-69: the retention, and the clock read for the expiration
SetExpiry(c, employee_id, a) ==
    /\ pc[c] = "idle"
    /\ loc' = [loc EXCEPT ![c] = [employee_id |-> employee_id, args |-> a, t1 |-> now]]
    /\ pc' = [pc EXCEPT ![c] = "expiring"]
    /\ UNCHANGED <<now, logVars, consentVars, ret, hist>>

\* set_consent lines 72-83: the record, the clock read again for last_updated
SetRecord(c) ==
    /\ pc[c] = "expiring"
    /\ loc' = [loc EXCEPT ![c] =
                 [employee_id |-> loc[c].employee_id, args |-> loc[c].args,
                  rec |-> consent_data(loc[c].employee_id, loc[c].args,
                                       loc[c].t1, TRUE, now, TRUE)]]
    /\ pc' = [pc EXCEPT ![c] = "computed"]
    /\ UNCHANGED <<now, logVars, consentVars, ret, hist>>

\* set_consent lines 87-91, single file: all_data = json.load(f), and {} when the
\* file does not parse
SetLoad(c) ==
    /\ pc[c] = "computed"
    /\ singleFile
    /\ loc' = [loc EXCEPT ![c] =
                 loc[c] @@ [all_data |-> readable(consents),
                            order |-> IF torn = EmptyDict THEN fileOrder ELSE <<>>]]
    /\ pc' = [pc EXCEPT ![c] = "loaded"]
    /\ UNCHANGED <<now, logVars, consentVars, ret, hist>>

\* set_consent lines 92-94, single file: all_data[employee_id] = consent_data and
\* the file is written from all_data
SetSaveFile(c) ==
    /\ pc[c] = "loaded"
    /\ consents' = store_put(loc[c].all_data, loc[c].employee_id, loc[c].rec)
    /\ fileOrder' = order_put(loc[c].order, loc[c].employee_id)
    /\ pc' = [pc EXCEPT ![c] = "saved"]
    /\ UNCHANGED <<now, logVars, singleFile, torn, ret, loc, hist>>

\* set_consent lines 96-98, a file per subject: the subject's file is written
SetSaveDir(c) ==
    /\ pc[c] = "computed"
    /\ ~singleFile
    /\ consents' = store_put(consents, loc[c].employee_id, loc[c].rec)
    /\ pc' = [pc EXCEPT ![c] = "saved"]
    /\ UNCHANGED <<now, logVars, singleFile, torn, fileOrder, ret, loc, hist>>

\* open(path, "w"): the file is emptied, or created empty
truncate(T, path) == [f \in DOMAIN T \cup {path} |-> IF f = path THEN 0 ELSE T[f]]

\* The length of the text the file holds now
disk_len(C, T, path) ==
    IF path \in DOMAIN T THEN T[path]
    ELSE IF singleFile THEN json_store(C)
    ELSE IF path \in DOMAIN C THEN json_record(C[path], 0)
    ELSE 0

\* set_consent lines 92-93 (single file) after the load: open(consent_file, "w") empties
\* the file before json.dump writes it
SetOpenFile(c) ==
    /\ pc[c] = "loaded"
    /\ torn' = truncate(torn, consent_path(loc[c].employee_id))
    /\ pc' = [pc EXCEPT ![c] = "opened"]
    /\ UNCHANGED <<now, logVars, singleFile, consents, fileOrder, ret, loc, hist>>

\* set_consent line 97 (a file per subject): open(consent_path, "w") empties the
\* subject's file, or creates it empty
SetOpenDir(c) ==
    /\ pc[c] = "computed"
    /\ ~singleFile
    /\ torn' = truncate(torn, consent_path(loc[c].employee_id))
    /\ pc' = [pc EXCEPT ![c] = "opened"]
    /\ UNCHANGED <<now, logVars, singleFile, consents, fileOrder, ret, loc, hist>>

\* set_consent lines 93-94 and 98: json.dump and the close of the file.  The text is
\* written from the start of the file, which the open left this caller at: the file
\* holds the new content when nothing longer was written into it since, and the new
\* text followed by the rest of the longer one, which does not parse, otherwise
SetDump(c) ==
    LET employee_id == loc[c].employee_id
        path     == consent_path(employee_id)
        all_data == store_put(IF singleFile THEN loc[c].all_data ELSE consents,
                              employee_id, loc[c].rec)
        text_len == IF singleFile THEN json_store(all_data)
                    ELSE json_record(loc[c].rec, 0)
        held_len == disk_len(consents, torn, path)
    IN  /\ pc[c] = "opened"
        /\ IF text_len >= held_len
           THEN /\ consents' = all_data
                /\ fileOrder' = IF singleFile
                                THEN order_put(loc[c].order, employee_id)
                                ELSE fileOrder
                /\ torn' = [f \in DOMAIN torn \ {path} |-> torn[f]]
           ELSE /\ torn' = [f \in DOMAIN torn \cup {path} |->
                               IF f = path THEN held_len ELSE torn[f]]
                /\ UNCHANGED <<consents, fileOrder>>
        /\ pc' = [pc EXCEPT ![c] = "saved"]
        /\ UNCHANGED <<now, logVars, singleFile, ret, loc, hist>>

\* ConsentManager.get_consent lines 130-155 beside set_consent calls: json.load of a
\* file that is being written raises, and the except clause returns None
GetConsentBeside(employee_id) ==
    LET consent == get_consent(readable(consents), employee_id)
    IN  /\ consent # None => nextId < MaxEvents
        /\ IF consent = None THEN UNCHANGED logVars ELSE read_effect(employee_id)
        /\ ret' = [op |-> "get_consent", arg |-> employee_id, val |-> consent]
        /\ UNCHANGED <<now, consentVars, callVars>>

\* ConsentManager.get_all_consents lines 274-310 beside set_consent calls: a file
\* that is being written gives no record
GetAllConsentsBeside(active_only, keys) ==
    /\ ret' = [op |-> "get_all_consents", arg |-> active_only,
               val |-> get_all_consents(readable(consents),
                          SelectSeq(keys, LAMBDA k : k \in DOMAIN readable(consents)),
                          active_only, now)]
    /\ UNCHANGED <<now, logVars, consentVars, callVars>>

\* set_consent lines 101-114: the audit event, and the return
SetLog(c) ==
    /\ pc[c] = "saved"
    /\ nextId < MaxEvents
    /\ logs' = log_event(logs, now, nextId, set_consent_event(loc[c].employee_id, loc[c].args))
    /\ nextId' = nextId + 1
    /\ curFile' = _get_log_filename(now)
    /\ ret' = [op |-> "set_consent", arg |-> loc[c].employee_id, args |-> loc[c].args,
               val |-> set_consent_result(loc[c].rec)]
    /\ pc' = [pc EXCEPT ![c] = "done"]
    /\ UNCHANGED <<now, consentVars, loc, hist>>

\* apply_retention_policy lines 198-203 (single file): the file is loaded and its
\* items listed; line 228 (directory): the directory is scanned
SweepLoad(keys) ==
    /\ pc[Sweeper] = "idle"
    /\ loc' = [loc EXCEPT ![Sweeper] =
                 [all_data |-> consents, order |-> fileOrder, items |-> consents,
                  keys |-> keys, count |-> 0, first_id |-> nextId]]
    /\ pc' = [pc EXCEPT ![Sweeper] = "loop"]
    /\ UNCHANGED <<now, logVars, consentVars, ret, hist>>

\* lines 204-206 (single file): the next listed record is tested against the clock;
\* lines 230-234 (directory): the next file is read and tested, a file that is gone
\* raises and is passed over (line 257)
SweepCheck ==
    /\ pc[Sweeper] = "loop"
    /\ loc[Sweeper].keys # <<>>
    /\ LET k   == Head(loc[Sweeper].keys)
           rec == IF singleFile THEN Some(loc[Sweeper].items[k])
                  ELSE get_consent(consents, k)
           hit == rec # None /\ is_expired(rec[1], now) = Some(TRUE)
       IN  /\ pc' = [pc EXCEPT ![Sweeper] = IF hit THEN "expired" ELSE "loop"]
           /\ loc' = [loc EXCEPT ![Sweeper].keys = IF hit THEN @ ELSE Tail(@)]
    /\ UNCHANGED <<now, logVars, consentVars, ret, hist>>

\* lines 207-212 and 237-242: the delete_consent event
SweepLog ==
    /\ pc[Sweeper] = "expired"
    /\ nextId < MaxEvents
    /\ logs' = log_event(logs, now, nextId, delete_consent_event(Head(loc[Sweeper].keys)))
    /\ nextId' = nextId + 1
    /\ curFile' = _get_log_filename(now)
    /\ pc' = [pc EXCEPT ![Sweeper] = "logged"]
    /\ UNCHANGED <<now, consentVars, ret, loc, hist>>

\* lines 213-216 (single file): the record is popped from all_data and the file is
\* written from all_data
SweepRemoveFile ==
    /\ pc[Sweeper] = "logged"
    /\ singleFile
    /\ LET k == Head(loc[Sweeper].keys)
       IN  /\ consents' = store_remove(loc[Sweeper].all_data, k)
           /\ fileOrder' = order_remove(loc[Sweeper].order, k)
           /\ loc' = [loc EXCEPT ![Sweeper].all_data = store_remove(@, k),
                                 ![Sweeper].order = order_remove(@, k),
                                 ![Sweeper].keys = Tail(@),
                                 ![Sweeper].count = @ + 1]
    /\ pc' = [pc EXCEPT ![Sweeper] = "loop"]
    /\ UNCHANGED <<now, logVars, singleFile, torn, ret, hist>>

\* lines 244-245 (directory): the subject's file is unlinked; a file that is gone
\* raises before the count (line 257)
SweepRemoveDir ==
    /\ pc[Sweeper] = "logged"
    /\ ~singleFile
    /\ LET k == Head(loc[Sweeper].keys)
       IN  /\ consents' = store_remove(consents, k)
           /\ loc' = [loc EXCEPT ![Sweeper].keys = Tail(@),
                                 ![Sweeper].count = IF k \in DOMAIN consents
                                                    THEN @ + 1 ELSE @]
    /\ pc' = [pc EXCEPT ![Sweeper] = "loop"]
    /\ UNCHANGED <<now, logVars, singleFile, torn, fileOrder, ret, hist>>

\* line 262: return deleted_count
SweepReturn ==
    /\ pc[Sweeper] = "loop"
    /\ loc[Sweeper].keys = <<>>
    /\ ret' = [op |-> "apply_retention_policy", val |-> loc[Sweeper].count]
    /\ pc' = [pc EXCEPT ![Sweeper] = "done"]
    /\ UNCHANGED <<now, logVars, consentVars, loc, hist>>

-----------------------------------------------------------------------------
(* cleanup_old_logs step by step, with the clock moving between the steps *)

\* cleanup_old_logs lines 210-214: the cutoff, and the directory listed in some order
PruneStart(retention_days, files) ==
    /\ pc[Pruner] = "idle"
    /\ loc' = [loc EXCEPT ![Pruner] =
                 [retention_days |-> retention_days,
                  cutoff |-> now - retention_days * TicksPerDay,
                  files |-> files, count |-> 0, first_id |-> nextId]]
    /\ pc' = [pc EXCEPT ![Pruner] = "loop"]
    /\ UNCHANGED <<now, logVars, consentVars, ret, hist>>

\* lines 216-217: the next file's name is parsed and its date tested against the
\* cutoff; a name that is not a date raises ValueError, caught at line 230
PruneCheck ==
    /\ pc[Pruner] = "loop"
    /\ loc[Pruner].files # <<>>
    /\ LET f   == Head(loc[Pruner].files)
           hit == file_date(f) # None /\ is_old(f, loc[Pruner].cutoff)
       IN  /\ pc' = [pc EXCEPT ![Pruner] = IF hit THEN "old" ELSE "loop"]
           /\ loc' = [loc EXCEPT ![Pruner].files = IF hit THEN @ ELSE Tail(@)]
    /\ UNCHANGED <<now, logVars, consentVars, ret, hist>>

\* lines 219-224: the deletion event of the file, written by log_event
PruneLog ==
    /\ pc[Pruner] = "old"
    /\ nextId < MaxEvents
    /\ logs' = log_event(logs, now, nextId,
                         delete_event_args(Head(loc[Pruner].files),
                                           loc[Pruner].retention_days))
    /\ nextId' = nextId + 1
    /\ curFile' = _get_log_filename(now)
    /\ pc' = [pc EXCEPT ![Pruner] = "logged"]
    /\ UNCHANGED <<now, consentVars, ret, loc, hist>>

\* lines 227-228: the file is unlinked and counted
PruneUnlink ==
    /\ pc[Pruner] = "logged"
    /\ logs' = unlink(logs, Head(loc[Pruner].files))
    /\ loc' = [loc EXCEPT ![Pruner].files = Tail(@), ![Pruner].count = @ + 1]
    /\ pc' = [pc EXCEPT ![Pruner] = "loop"]
    /\ UNCHANGED <<now, nextId, curFile, consentVars, ret, hist>>

\* line 233: return deleted_count
PruneReturn ==
    /\ pc[Pruner] = "loop"
    /\ loc[Pruner].files = <<>>
    /\ ret' = [op |-> "cleanup_old_logs", retention_days |-> loc[Pruner].retention_days,
               val |-> loc[Pruner].count]
    /\ loc' = [loc EXCEPT ![Pruner] = EmptyDict]
    /\ pc' = [pc EXCEPT ![Pruner] = "idle"]
    /\ UNCHANGED <<now, logVars, consentVars, hist>>

-----------------------------------------------------------------------------
(* The retention worker of simple_api.py, step by step *)

\* ImmutableAuditLogger.log_access lines 257-271: the arguments it passes on to
\* log_event; the keys of extra replace those of the same name
log_access(actor, action, resource, reason, purpose, via_endpoint, extra) ==
    [ user_id |-> actor, action |-> action, resource |-> resource,
      details |-> Some(extra @@ [reason |-> reason, purpose |-> purpose,
                                 via_endpoint |-> via_endpoint]),
      status |-> "success" ]

\* summary_extra with the two counts in each other's place
summary_extra_swapped(consent_deleted, logs_deleted, retention_days) ==
    [ consent_records_deleted |-> logs_deleted,
      log_files_deleted |-> consent_deleted,
      retention_days |-> retention_days ]

\* retention_worker lines 428-432: the extra details of the summary event
summary_extra(consent_deleted, logs_deleted, retention_days) ==
    [ consent_records_deleted |-> consent_deleted,
      log_files_deleted |-> logs_deleted,
      retention_days |-> retention_days ]

\* retention_worker lines 421-435: the summary event
daily_retention_event(consent_deleted, logs_deleted, retention_days) ==
    log_access("system", "daily_retention", <<"system">>, "scheduled",
               "retention_enforcement", "startup_worker",
               summary_extra(consent_deleted, logs_deleted, retention_days))

\* start_retention_worker lines 411-415 and 440: the task is created and reads the
\* configured retention; runs counts the sweeps begun, failed is the last run that
\* raised, wake is the time at which the sleep under way ends
WorkerStart(retention_days) ==
    /\ pc[Worker] = "idle"
    /\ loc' = [loc EXCEPT ![Worker] =
                 [retention_days |-> retention_days, consent_deleted |-> 0,
                  logs_deleted |-> 0, runs |-> 0, failed |-> 0, wake |-> 0]]
    /\ pc' = [pc EXCEPT ![Worker] = "ready"]
    /\ UNCHANGED <<now, logVars, consentVars, ret, hist>>

\* line 418: consent_deleted = consent_manager.apply_retention_policy()
WorkerConsentSweep(keys) ==
    LET st == retention_loop([logs |-> logs, id |-> nextId, consents |-> consents,
                              order |-> fileOrder, count |-> 0], keys, now)
    IN  /\ pc[Worker] = "ready"
        /\ st.id <= MaxEvents
        /\ logs' = st.logs
        /\ nextId' = st.id
        /\ curFile' = IF st.count > 0 THEN _get_log_filename(now) ELSE curFile
        /\ consents' = st.consents
        /\ fileOrder' = st.order
        /\ ret' = [op |-> "apply_retention_policy", val |-> st.count]
        /\ hist' = [hist EXCEPT !.written =
                       [k \in DOMAIN @ \cap DOMAIN st.consents |-> @[k]]]
        /\ loc' = [loc EXCEPT ![Worker].consent_deleted = st.count,
                              ![Worker].runs = @ + 1]
        /\ pc' = [pc EXCEPT ![Worker] = "swept"]
        /\ UNCHANGED <<now, singleFile, torn>>

\* lines 419-420: result = audit_logger.apply_retention_policy(retention_days) and
\* logs_deleted = result.get("logs_deleted", 0)
WorkerPrune(files) ==
    LET retention_days == loc[Worker].retention_days
        cutoff == now - retention_days * TicksPerDay
        n      == Cardinality({f \in DOMAIN logs : is_old(f, cutoff)})
        st     == cleanup_loop([logs |-> logs, id |-> nextId, count |-> 0],
                               files, cutoff, now, retention_days)
    IN  /\ pc[Worker] = "swept"
        /\ nextId + n <= MaxEvents
        /\ logs' = st.logs
        /\ nextId' = st.id
        /\ curFile' = IF n > 0 THEN _get_log_filename(now) ELSE curFile
        /\ ret' = [op |-> "cleanup_old_logs", retention_days |-> retention_days,
                   val |-> st.count]
        /\ loc' = [loc EXCEPT ![Worker].logs_deleted = st.count]
        /\ pc' = [pc EXCEPT ![Worker] = "pruned"]
        /\ UNCHANGED <<now, consentVars, hist>>

\* lines 421-435: audit_logger.log_access(... action="daily_retention" ...)
WorkerSummary ==
    /\ pc[Worker] = "pruned"
    /\ nextId < MaxEvents
    /\ logs' = log_event(logs, now, nextId,
                         daily_retention_event(loc[Worker].consent_deleted,
                                               loc[Worker].logs_deleted,
                                               loc[Worker].retention_days))
    /\ nextId' = nextId + 1
    /\ curFile' = _get_log_filename(now)
    /\ ret' = [op |-> "log_access", raised |-> FALSE, val |-> Some(nextId)]
    /\ pc' = [pc EXCEPT ![Worker] = "summarised"]
    /\ UNCHANGED <<now, consentVars, loc, hist>>

\* line 418 raises.  In directory mode the listing of the storage directory
\* (consent_manager.py line 229) raises an OSError that is not a PermissionError,
\* before a record is read; the errors of each record are caught inside the call
WorkerSweepRaise ==
    /\ pc[Worker] = "ready"
    /\ ~singleFile
    /\ loc' = [loc EXCEPT ![Worker].runs = @ + 1,
                          ![Worker].failed = loc[Worker].runs + 1]
    /\ ret' = [op |-> "apply_retention_policy", raised |-> TRUE, val |-> None]
    /\ pc' = [pc EXCEPT ![Worker] = "failed"]
    /\ UNCHANGED <<now, logVars, consentVars, hist>>

\* lines 419-420 raise: the listing of the log directory (audit_logger.py line 214)
\* raises an OSError that is not a PermissionError, before a file is looked at; the
\* errors of each file are caught inside the call
WorkerPruneRaise ==
    /\ pc[Worker] = "swept"
    /\ loc' = [loc EXCEPT ![Worker].failed = loc[Worker].runs]
    /\ ret' = [op |-> "cleanup_old_logs", raised |-> TRUE, val |-> None]
    /\ pc' = [pc EXCEPT ![Worker] = "failed"]
    /\ UNCHANGED <<now, logVars, consentVars, hist>>

\* lines 421-435 raise: the log_event call of log_access raises at the place fault,
\* after what it has done to the log
WorkerSummaryRaise(fault) ==
    LET st == log_event_io([logs |-> logs, id |-> nextId, cur |-> curFile], now,
                           daily_retention_event(loc[Worker].consent_deleted,
                                                 loc[Worker].logs_deleted,
                                                 loc[Worker].retention_days),
                           fault)
    IN  /\ pc[Worker] = "pruned"
        /\ st.id <= MaxEvents
        /\ logs' = st.logs
        /\ nextId' = st.id
        /\ curFile' = st.cur
        /\ loc' = [loc EXCEPT ![Worker].failed = loc[Worker].runs]
        /\ ret' = [op |-> "log_access", raised |-> TRUE, val |-> None]
        /\ pc' = [pc EXCEPT ![Worker] = "failed"]
        /\ UNCHANGED <<now, consentVars, hist>>

\* WorkerCatch without the except clause: the exception ends the task
WorkerCatch_uncaught ==
    /\ pc[Worker] = "failed"
    /\ pc' = [pc EXCEPT ![Worker] = "ended"]
    /\ UNCHANGED <<now, logVars, consentVars, ret, loc, hist>>

\* lines 436-437: except Exception logs the error
WorkerCatch ==
    /\ pc[Worker] = "failed"
    /\ pc' = [pc EXCEPT ![Worker] = "caught"]
    /\ UNCHANGED <<now, logVars, consentVars, ret, loc, hist>>

\* line 438: await asyncio.sleep(24 * 60 * 60) is called, after the summary or after
\* the except clause; the sleep ends a day after this moment
WorkerSleep ==
    /\ pc[Worker] \in {"summarised", "caught"}
    /\ loc' = [loc EXCEPT ![Worker].wake = now + TicksPerDay]
    /\ pc' = [pc EXCEPT ![Worker] = "sleeping"]
    /\ UNCHANGED <<now, logVars, consentVars, ret, hist>>

\* line 438 returns once the day has passed, and the loop begins again
WorkerWake ==
    /\ pc[Worker] = "sleeping"
    /\ now >= loc[Worker].wake
    /\ pc' = [pc EXCEPT ![Worker] = "ready"]
    /\ UNCHANGED <<now, logVars, consentVars, ret, loc, hist>>

-----------------------------------------------------------------------------
(* Specifications *)

\* One choice of arguments for log_event and for set_consent
OneLogArg == CHOOSE a \in LogArgs : a.details # None

OneSetArg == CHOOSE a \in SetArgs : a.monitoring_enabled /\ a.retention_days = Some(1)

\* Two set_consent calls and one sweep, step by step, with the clock moving; the
\* calls ask for a retention that runs out within the model's time
ShortSetArgs == {a \in SetArgs : effective_retention(a) = 1}

NextConsentSteps ==
    \/ Tick
    \/ \E a \in ShortSetArgs : SetCompute("w1", "e1", a, TRUE, TRUE)
    \/ \E e \in Subjects, a \in ShortSetArgs : SetCompute("w2", e, a, TRUE, TRUE)
    \/ \E c \in Setters : SetLoad(c)
    \/ \E c \in Setters : SetSaveFile(c)
    \/ \E c \in Setters : SetSaveDir(c)
    \/ \E c \in Setters : SetLog(c)
    \/ \E keys \in (IF singleFile THEN {fileOrder} ELSE ScanOrders(DOMAIN consents)) :
          SweepLoad(keys)
    \/ SweepCheck
    \/ SweepLog
    \/ SweepRemoveFile
    \/ SweepRemoveDir
    \/ SweepReturn

InitConsentSteps == Init /\ consents = EmptyDict

SpecConsentSteps == InitConsentSteps /\ [][NextConsentSteps]_vars

\* log_event calls one after the other, and one replacement of a stored field
NextTamper ==
    \/ Tick
    \/ \E a \in LogArgs : LogEvent(a)
    \/ \E d \in DOMAIN logs : \E i \in DOMAIN logs[d] :
          \E field \in DOMAIN logs[d][i] : \E v \in TamperValues(field) :
             Tamper(d, i, field, v)

SpecTamper == InitAudit /\ [][NextTamper]_vars

\* cleanup_old_logs step by step, log_event calls of other callers before, between
\* and after its steps, with the clock moving
NextPruneSteps ==
    \/ Tick
    \/ LogEvent(OneLogArg)
    \/ \E rd \in 0..MaxRetentionArg : \E files \in ScanOrders(DOMAIN logs) :
          PruneStart(rd, files)
    \/ PruneCheck
    \/ PruneLog
    \/ PruneUnlink
    \/ PruneReturn

SpecPruneSteps == InitAudit /\ [][NextPruneSteps]_vars

\* Concurrent log_event calls, step by step, with the clock moving
NextLogSteps ==
    \/ TickDuringCalls
    \/ \E c \in Loggers, a \in LogArgs : LogBuild(c, a)
    \/ \E c \in Loggers : LogSetFile(c)
    \/ \E c \in Loggers : LogReadLast(c)
    \/ \E c \in Loggers : LogAppend(c)

SpecLogSteps == InitAudit /\ [][NextLogSteps]_vars

\* The audit log on its own: outside callers log events, time passes, old logs are pruned
NextAudit ==
    \/ Tick
    \/ \E a \in LogArgs : LogEvent(a)
    \/ \E rd \in 0..MaxRetentionArg : \E files \in ScanOrders(DOMAIN logs) :
          CleanupOldLogs(rd, files)

SpecAudit == InitAudit /\ [][NextAudit]_vars

\* Setting consent and asking whether monitoring is allowed
NextMonitoring ==
    \/ Tick
    \/ \E e \in Subjects, a \in SetArgs : SetConsent(e, a)
    \/ \E e \in Subjects : IsMonitoringAllowed(e)

SpecMonitoring == Init /\ [][NextMonitoring]_vars

\* The set_consent calls of two callers, each step by step, with the clock moving
NextSetSteps ==
    \/ Tick
    \/ \E c \in Setters, e \in Subjects, a \in SetArgs : SetExpiry(c, e, a)
    \/ \E c \in Setters : SetRecord(c)
    \/ \E c \in Setters : SetLoad(c)
    \/ \E c \in Setters : SetSaveFile(c)
    \/ \E c \in Setters : SetSaveDir(c)
    \/ \E c \in Setters : SetLog(c)

SpecSetSteps == InitConsentSteps /\ [][NextSetSteps]_vars

\* One sweep step by step with the clock moving, set_consent calls before, between
\* and after its steps
NextSweepSteps ==
    \/ Tick
    \/ \E e \in Subjects : SetConsent(e, OneSetArg)
    \/ \E keys \in (IF singleFile THEN {fileOrder} ELSE ScanOrders(DOMAIN consents)) :
          SweepLoad(keys)
    \/ SweepCheck
    \/ SweepLog
    \/ SweepRemoveFile
    \/ SweepRemoveDir
    \/ SweepReturn

SpecSweepSteps == Init /\ [][NextSweepSteps]_vars

\* The set_consent calls that grant monitoring (the sweep and the listing do not read
\* monitoring_enabled)
GrantingSetArgs == {a \in SetArgs : a.monitoring_enabled}

\* The reads that test the expiration: is_monitoring_allowed and get_all_consents
NextReads ==
    \/ Tick
    \/ \E a \in GrantingSetArgs : SetConsent("e1", a)
    \/ \E e \in Subjects : IsMonitoringAllowed(e)
    \/ \E active_only \in BOOLEAN :
          \E keys \in (IF singleFile THEN {fileOrder} ELSE ScanOrders(DOMAIN consents)) :
             GetAllConsents(active_only, keys)

SpecReads == Init /\ [][NextReads]_vars

\* The consent store written, read and swept, call after call
NextStore ==
    \/ Tick
    \/ \E a \in SetArgs : SetConsent("e1", a)
    \/ \E e \in Subjects : GetConsent(e)
    \/ \E keys \in (IF singleFile THEN {fileOrder} ELSE ScanOrders(DOMAIN consents)) :
          ApplyRetentionPolicy(keys)

\* A store that holds the record of e2 with an invalid expiration from the start
InitStore == Init /\ consents # EmptyDict

SpecStore == InitStore /\ [][NextStore]_vars

\* Setting consent and sweeping the consent store
NextSweep ==
    \/ Tick
    \/ \E e \in Subjects, a \in GrantingSetArgs : SetConsent(e, a)
    \/ \E keys \in (IF singleFile THEN {fileOrder} ELSE ScanOrders(DOMAIN consents)) :
          ApplyRetentionPolicy(keys)

SpecSweep == Init /\ [][NextSweep]_vars

\* log_event and set_consent with storage that can fail at each read and write, the
\* calls following each other within one tick of the clock; a failed write of the
\* store leaves the file as it was, empty, or with one character of the new text
NextFaults ==
    \/ \E append \in {"ok"} \cup AppendFaults : LogEventIO(OneLogArg, append)
    \/ \E load_ok \in BOOLEAN, append \in {"ok"} \cup AppendFaults :
          SetConsentIO("e1", OneSetArg, load_ok, TRUE, None, append)
    \/ \E load_ok \in BOOLEAN, kept \in {None, Some(0), Some(1)} :
          SetConsentIO("e1", OneSetArg, load_ok, FALSE, kept, "ok")

SpecFaults == Init /\ [][NextFaults]_vars

\* The calls that are not the sweep, with a store whose reads can fail
NextFrame ==
    \/ Tick
    \/ \E e \in Subjects, load_ok \in BOOLEAN :
          SetConsentIO(e, OneSetArg, load_ok, TRUE, None, "ok")
    \/ \E e \in Subjects, load_ok \in BOOLEAN : GetConsentFaulty(e, load_ok, "ok")
    \/ \E e \in Subjects, load_ok \in BOOLEAN :
          IsMonitoringAllowedFaulty(e, load_ok, "ok")
    \/ \E active_only \in BOOLEAN :
          \E keys \in (IF singleFile THEN {fileOrder} ELSE ScanOrders(DOMAIN consents)),
             Fails \in SUBSET {consent_path(e) : e \in Subjects} :
             GetAllConsentsIO(active_only, keys, Fails)

SpecFrame == Init /\ [][NextFrame]_vars

\* One subject's consent set, tested, swept and read, call after call
NextLifecycle ==
    \/ Tick
    \/ \E e \in Subjects : SetConsent(e, OneSetArg)
    \/ \E e \in Subjects : IsMonitoringAllowed(e)
    \/ \E e \in Subjects : GetConsent(e)
    \/ \E keys \in (IF singleFile THEN {fileOrder} ELSE ScanOrders(DOMAIN consents)) :
          ApplyRetentionPolicy(keys)

SpecLifecycle == InitConsentSteps /\ [][NextLifecycle]_vars

\* log_event calls and queries, call after call; a query changes nothing and does
\* not read the clock, so only the first query after a log_event is taken
NextQuery ==
    \/ Tick
    \/ \E a \in LogArgs : LogEvent(a)
    \/ /\ ret.op # "get_logs"
       /\ \E a \in QueryArgs, files \in ScanOrders(DOMAIN logs) : GetLogs(a, files)

SpecQuery == InitAudit /\ [][NextQuery]_vars

\* Queries of a log that holds lines log_event did not write; again only the first
\* query after a write is taken
NextQueryMalformed ==
    \/ Tick
    \/ LogEvent(OneLogArg)
    \/ \E line \in MalformedLines : WriteMalformed(line)
    \/ /\ ret.op # "get_logs"
       /\ \E a \in {q \in QueryArgs : q.limit = MaxLimit} :
             \E files \in ScanOrders(DOMAIN logs) : GetLogs(a, files)

SpecQueryMalformed == InitAudit /\ [][NextQueryMalformed]_vars

\* log_event calls whose append can fail, call after call
NextLogFaults ==
    \/ Tick
    \/ \E a \in LogArgs, append \in {"ok"} \cup AppendFaults : LogEventIO(a, append)

SpecLogFaults == InitAudit /\ [][NextLogFaults]_vars

\* set_consent calls whose write is an open and a dump, and reads beside them, within
\* one tick of the clock
NextWriteSteps ==
    \/ \E c \in Setters, us1, us2 \in BOOLEAN : SetCompute(c, "e1", OneSetArg, us1, us2)
    \/ \E c \in Setters : SetLoad(c)
    \/ \E c \in Setters : SetOpenFile(c)
    \/ \E c \in Setters : SetOpenDir(c)
    \/ \E c \in Setters : SetDump(c)
    \/ \E c \in Setters : SetLog(c)
    \/ \E e \in Subjects : GetConsentBeside(e)
    \/ \E active_only \in BOOLEAN :
          \E keys \in (IF singleFile THEN {fileOrder} ELSE ScanOrders(DOMAIN consents)) :
             GetAllConsentsBeside(active_only, keys)

SpecWriteSteps == Init /\ [][NextWriteSteps]_vars

\* A step of the worker task
WorkerStep ==
    \/ \E keys \in (IF singleFile THEN {fileOrder} ELSE ScanOrders(DOMAIN consents)) :
          WorkerConsentSweep(keys)
    \/ WorkerSweepRaise
    \/ \E files \in ScanOrders(DOMAIN logs) : WorkerPrune(files)
    \/ WorkerPruneRaise
    \/ WorkerSummary
    \/ \E fault \in AppendFaults : WorkerSummaryRaise(fault)
    \/ WorkerCatch
    \/ WorkerSleep
    \/ WorkerWake

\* The retention worker beside the callers of set_consent; the worker's calls are
\* synchronous, so no other call of the process runs between the start of a sweep
\* and the sleep.  The worker is started with the shortest or the longest value of
\* AUDIT_LOG_RETENTION_DAYS
NextWorker ==
    \/ Tick
    \/ /\ pc[Worker] \in {"idle", "sleeping"}
       /\ SetConsent("e1", OneSetArg)
    \/ \E retention_days \in {0, MaxRetentionArg} : WorkerStart(retention_days)
    \/ WorkerStep

SpecWorker == Init /\ [][NextWorker]_vars

\* The worker on its own, with the clock moving; time passes, and the event loop
\* keeps running the task, so a step of it that can be taken is taken
NextWorkerLive ==
    \/ Tick
    \/ \E retention_days \in {0, MaxRetentionArg} : WorkerStart(retention_days)
    \/ WorkerStep

SpecWorkerLive ==
    Init /\ [][NextWorkerLive]_vars /\ WF_vars(Tick) /\ WF_vars(WorkerStep)

\* The two listings of the consent store, call after call
NextListing ==
    \/ Tick
    \/ \E e \in Subjects : SetConsent(e, OneSetArg)
    \/ \E active_only \in BOOLEAN :
          \E keys \in (IF singleFile THEN {fileOrder} ELSE ScanOrders(DOMAIN consents)) :
             GetAllConsents(active_only, keys)
    \/ \E keys \in (IF singleFile THEN {fileOrder} ELSE ScanOrders(DOMAIN consents)) :
          ListConsents(keys)

SpecListing == Init /\ [][NextListing]_vars

\* The set_consent calls that give the retention in every way: neither argument, one
\* of them, or both with different values
RetentionArgs ==
    [ monitoring_enabled  : {TRUE},
      retention_days      : {None, Some(1), Some(2)},
      data_categories     : {None},
      requester_id        : {"system"},
      data_retention_days : {None, Some(0), Some(1)},
      allow_analytics     : {None} ]

\* set_consent calls, call after call
NextRetention ==
    \/ Tick
    \/ \E a \in RetentionArgs : SetConsent("e1", a)

SpecRetention == Init /\ [][NextRetention]_vars

\* The sweep with an external logger, after set_consent calls
NextExternal ==
    \/ Tick
    \/ \E e \in Subjects : SetConsent(e, OneSetArg)
    \/ \E Fails \in {{}, {"e1"}} :
          \E keys \in (IF singleFile THEN {fileOrder} ELSE ScanOrders(DOMAIN consents)) :
             ApplyRetentionPolicyExternal(keys, Fails)

SpecExternal == Init /\ [][NextExternal]_vars

\* The places of AppendFaults that differ in what they leave in the log: nothing,
\* a part of the line, and the line without its newline
WriteFaults == {"open", "cut", "no_newline"}

\* The reads of the record of one subject with storage that can fail
NextReadFaults ==
    \/ Tick
    \/ SetConsent("e1", OneSetArg)
    \/ \E load_ok \in BOOLEAN, append \in {"ok"} \cup WriteFaults :
          /\ ~load_ok => append = "ok"
          /\ GetConsentFaulty("e1", load_ok, append)
    \/ \E load_ok \in BOOLEAN, append \in {"ok"} \cup WriteFaults :
          /\ ~load_ok => append = "ok"
          /\ IsMonitoringAllowedFaulty("e1", load_ok, append)

SpecReadFaults == Init /\ [][NextReadFaults]_vars

\* The prune over a log directory that may hold a file with an unparsable name,
\* with deletion events that can fail (no event is written for a file whose name
\* does not parse; the events that fail are events of old files), all of them at
\* the same place
InitPrune ==
    /\ now = 0
    /\ logs \in {EmptyDict, [f \in {UnparsableName} |-> <<>>]}
    /\ nextId = 0
    /\ curFile = _get_log_filename(0)
    /\ singleFile = TRUE
    /\ consents = EmptyDict
    /\ fileOrder = <<>>
    /\ torn = EmptyDict
    /\ ret = [op |-> "init"]
    /\ pc = [c \in Callers |-> "idle"]
    /\ loc = [c \in Callers |-> EmptyDict]
    /\ hist = [overlapped |-> FALSE, rolled |-> FALSE, tampered |-> None,
               written |-> EmptyDict]

NextPruneFaults ==
    \/ Tick
    \/ LogEvent(OneLogArg)
    \/ \E rd \in {0, 1} : \E files \in ScanOrders(DOMAIN logs) :
          \E Fails \in SUBSET {f \in DOMAIN logs \ {UnparsableName} :
                                  is_old(f, now - rd * TicksPerDay)},
             fault \in WriteFaults :
                /\ Fails = {} => fault = "open"
                /\ CleanupOldLogsIO(rd, files, Fails, fault)

SpecPruneFaults == InitPrune /\ [][NextPruneFaults]_vars

\* The three readers of the expiration: is_monitoring_allowed, the active listing
\* and the sweep
NextExpiry ==
    \/ Tick
    \/ \E e \in Subjects : SetConsent(e, OneSetArg)
    \/ \E e \in Subjects : IsMonitoringAllowed(e)
    \/ \E keys \in (IF singleFile THEN {fileOrder} ELSE ScanOrders(DOMAIN consents)) :
          GetAllConsents(TRUE, keys)
    \/ \E keys \in (IF singleFile THEN {fileOrder} ELSE ScanOrders(DOMAIN consents)) :
          ApplyRetentionPolicy(keys)

SpecExpiry == Init /\ [][NextExpiry]_vars

\* Every operation of both components, each with one choice of arguments
NextAll ==
    \/ Tick
    \/ LogEvent(OneLogArg)
    \/ \E rd \in {0, 1} : \E files \in ScanOrders(DOMAIN logs) :
          CleanupOldLogs(rd, files)
    \/ SetConsent("e1", OneSetArg)
    \/ \E e \in Subjects : GetConsent(e)
    \/ \E e \in Subjects : IsMonitoringAllowed(e)
    \/ \E keys \in (IF singleFile THEN {fileOrder} ELSE ScanOrders(DOMAIN consents)) :
          ApplyRetentionPolicy(keys)

SpecAll == Init /\ [][NextAll]_vars

-----------------------------------------------------------------------------
(* Properties *)

IsPrefix(s, t) == Len(s) <= Len(t) /\ SubSeq(t, 1, Len(s)) = s

\* The step is a call of operation op (Tick is the only step that moves the clock,
\* and every call records itself in ret)
IsCall(op) == ret'.op = op /\ now' = now

\* verify_chain of the specification, from the stored entries alone: the first
\* entry has no prev_hash, every later one has the hash of the entry before it, and
\* every hash is the digest of prev_hash and the entry's other stored fields
verify_chain(partition) ==
    \A i \in DOMAIN partition :
        LET e == partition[i]
        IN  /\ e.prev_hash = (IF i = 1 THEN None ELSE partition[i - 1].hash)
            /\ e.hash = _compute_hash(e.prev_hash,
                                      [k \in DOMAIN e \ {"hash"} |-> e[k]])

\* The stored expiration_time is a time and it has passed
HasExpired(rec, t) ==
    /\ Len(rec.expiration_date) \in {2, 3}
    /\ rec.expiration_date[1] = "iso"
    /\ t > rec.expiration_date[2]

\* The stored expiration_time is not a time
Unparsable(rec) ==
    ~(Len(rec.expiration_date) \in {2, 3} /\ rec.expiration_date[1] = "iso")

\* C1 as stated: after any sequence of non-overlapping log_event calls every
\* partition is a valid hash chain, so verify_chain succeeds on it.
C1_AsStated ==
    ~hist.overlapped => \A d \in DOMAIN logs : verify_chain(logs[d])

\* C2: tamper detection.  Once any single stored field of any single entry of a
\* partition written by log_event has been replaced by a different value,
\* verify_chain fails for that partition.
C2_TamperDetected ==
    hist.tampered # None => ~verify_chain(logs[hist.tampered[1]])

\* A field of an entry that is not the last of its partition has been replaced
C2_Witness ==
    /\ ret.op = "tamper"
    /\ ret.index < Len(logs[ret.partition])
    /\ ret.field = "ip_address"

\* C3 as stated: under every interleaving of the steps of concurrent log_event
\* calls on one day's partition, the partition stays a valid chain: no two entries
\* carry the same prev_hash and each prev_hash is the hash of the entry before.
C3_AsStated ==
    ~hist.rolled =>
        \A d \in DOMAIN logs :
            /\ verify_chain(logs[d])
            /\ \A i, j \in DOMAIN logs[d] :
                   logs[d][i].prev_hash = logs[d][j].prev_hash => i = j

\* C4: the audit log is append-only.  In every step every existing partition keeps
\* all its entries unchanged and in place, new entries coming only at its end; the
\* one exception is cleanup_old_logs, which may remove a whole partition (after
\* which the file, if it exists again, holds only entries written since).
C4_AppendOnly ==
    [][ \A d \in DOMAIN logs :
          \/ d \in DOMAIN logs' /\ IsPrefix(logs[d], logs'[d])
          \/ /\ IsCall("cleanup_old_logs")
             /\ d \in DOMAIN logs' =>
                  \A i \in DOMAIN logs'[d] : logs'[d][i].event_id >= nextId ]_vars

C4_Witness ==
    /\ ret.op = "cleanup_old_logs"
    /\ ret.val >= 1
    /\ \E d \in DOMAIN logs : Len(logs[d]) >= 2

\* C5 as stated: whatever the calendar does between or during log_event calls,
\* every entry is appended with prev_hash = the hash of the last entry of the very
\* partition it is appended to (None exactly when that partition is empty).
C5_AsStated ==
    [][ ~hist.overlapped =>
          \A d \in DOMAIN logs' :
              LET old == IF d \in DOMAIN logs THEN logs[d] ELSE <<>>
              IN  Len(logs'[d]) > Len(old) =>
                      logs'[d][Len(old) + 1].prev_hash =
                          (IF old = <<>> THEN None ELSE old[Len(old)].hash) ]_vars

\* C6 as stated: is_monitoring_allowed is false without a record, false for a record
\* with now > expiration_time, and the record's monitoring_enabled otherwise.
C6_AsStated ==
    [][ IsCall("is_monitoring_allowed") =>
          LET e == ret'.arg
          IN  ret'.val = ( IF e \notin DOMAIN consents THEN FALSE
                           ELSE IF HasExpired(consents[e], now) THEN FALSE
                           ELSE consents[e].monitoring_enabled ) ]_vars

\* C6 amended: is_monitoring_allowed is false without a record, false for a record
\* whose expiration_time is unparsable, false for a record with now > expiration_time
\* (whatever monitoring_enabled says and before any sweep), and the record's
\* monitoring_enabled otherwise; the store is left as it was.
C6_MonitoringAllowed ==
    [][ IsCall("is_monitoring_allowed") =>
          LET e == ret'.arg
          IN  /\ ret'.val = ( IF e \notin DOMAIN consents THEN FALSE
                              ELSE IF Unparsable(consents[e]) THEN FALSE
                              ELSE IF HasExpired(consents[e], now) THEN FALSE
                              ELSE consents[e].monitoring_enabled )
              /\ consents' = consents ]_vars

\* An expired record with monitoring_enabled = TRUE, still stored, was denied
C6_Witness ==
    /\ ret.op = "is_monitoring_allowed"
    /\ ret.val = FALSE
    /\ ret.arg \in DOMAIN consents
    /\ consents[ret.arg].monitoring_enabled
    /\ HasExpired(consents[ret.arg], now)

\* C7: the consent sweep removes exactly the records with now > expiration_time,
\* leaves every other record as it was, and returns the number removed.
C7_SweepExact ==
    [][ IsCall("apply_retention_policy") =>
          LET Exp == {e \in DOMAIN consents : HasExpired(consents[e], now)}
          IN  /\ DOMAIN consents' = DOMAIN consents \ Exp
              /\ \A e \in DOMAIN consents' : consents'[e] = consents[e]
              /\ ret'.val = Cardinality(Exp) ]_vars

\* A sweep of the single file removed a record and left another
C7_Witness ==
    /\ ret.op = "apply_retention_policy"
    /\ ret.val >= 1
    /\ singleFile
    /\ \E e \in DOMAIN consents : ~Unparsable(consents[e])

\* C8 as stated: a sweep running beside set_consent never destroys renewed consent.
\* In a step taken while no set_consent is under way, no stored record that is
\* unexpired is removed or changed (so the sweep neither deletes a record that a
\* completed set_consent renewed nor writes back what it read before that call).
C8_AsStated ==
    [][ (\A c \in Setters : pc[c] \in {"idle", "done"} /\ pc'[c] = pc[c]) =>
          \A e \in DOMAIN consents :
              ~HasExpired(consents[e], now) =>
                  e \in DOMAIN consents' /\ consents'[e] = consents[e] ]_vars

\* C9 as stated: after two set_consent calls for different subjects have both
\* returned (no sweep having run), both records are stored as their calls wrote them.
C9_AsStated ==
    ( /\ \A c \in Setters : pc[c] = "done"
      /\ pc[Sweeper] = "idle"
      /\ loc["w1"].employee_id # loc["w2"].employee_id )
    => \A c \in Setters :
           /\ loc[c].employee_id \in DOMAIN consents
           /\ consents[loc[c].employee_id] = loc[c].rec

\* C10: cleanup_old_logs(retention_days) removes exactly the partitions whose date
\* (its midnight) is before now - retention_days, returns their number, and leaves
\* every other partition in existence with the same contents, but for the deletion
\* events appended to the partition of the current day.
C10_CleanupExact ==
    [][ IsCall("cleanup_old_logs") =>
          LET rd    == ret'.retention_days
              Old   == {d \in DOMAIN logs : d * TicksPerDay < now - rd * TicksPerDay}
              today == now \div TicksPerDay
              IsDeletion(e) == e.action = "delete" /\ e.user_id = "system"
                               /\ e.event_id >= nextId
          IN  /\ ret'.val = Cardinality(Old)
              /\ DOMAIN logs' \subseteq (DOMAIN logs \ Old) \cup {today}
              /\ \A d \in Old : d \in DOMAIN logs' =>
                      \A i \in DOMAIN logs'[d] : IsDeletion(logs'[d][i])
              /\ \A d \in DOMAIN logs \ Old :
                      /\ d \in DOMAIN logs'
                      /\ IsPrefix(logs[d], logs'[d])
                      /\ d # today => logs'[d] = logs[d]
                      /\ \A i \in DOMAIN logs'[d] :
                             i > Len(logs[d]) => IsDeletion(logs'[d][i]) ]_vars

\* A prune that removed a partition at the boundary of the cutoff's day and kept a
\* partition that is not the current day's
C10_Witness ==
    /\ ret.op = "cleanup_old_logs"
    /\ ret.val >= 1
    /\ \E d \in DOMAIN logs : d # now \div TicksPerDay
    /\ now \div TicksPerDay \in DOMAIN logs
    /\ \E i \in DOMAIN logs[now \div TicksPerDay] :
          logs[now \div TicksPerDay][i].action = "delete"

\* C11 as stated: when cleanup_old_logs unlinks a partition, exactly one deletion
\* event of this call for that partition (user system, action delete, resource the
\* partition) is already stored, and it is stored in the partition of the day it was
\* written on, which is not the partition being removed.
C11_AsStated ==
    [][ (pc[Pruner] = "logged" /\ pc'[Pruner] = "loop") =>
          LET f == Head(loc[Pruner].files)
              IsDeletionOf(e) == /\ e.user_id = "system"
                                 /\ e.action = "delete"
                                 /\ e.resource = <<"audit_log", f>>
                                 /\ e.event_id >= loc[Pruner].first_id
              Hits == Places(logs, IsDeletionOf)
          IN  /\ Cardinality(Hits) = 1
              /\ \A h \in Hits :
                     /\ h[1] = _get_log_filename(logs[h[1]][h[2]].timestamp[2])
                     /\ h[1] # f ]_vars

\* C12 as stated: cleanup_old_logs never deletes the current day's partition, for
\* any retention_days including 0, and every deletion event the call wrote is
\* still stored when it returns.
C12_AsStated ==
    [][ IsCall("cleanup_old_logs") =>
          LET today == _get_log_filename(now)
              Written(e) == e.action = "delete" /\ e.user_id = "system"
                            /\ e.event_id >= nextId
          IN  /\ today \in DOMAIN logs =>
                     today \in DOMAIN logs' /\ IsPrefix(logs[today], logs'[today])
              /\ Cardinality(Places(logs', Written)) = nextId' - nextId ]_vars

\* C13: round trip.  get_consent for a subject whose last set_consent no sweep has
\* undone returns the record that set_consent wrote, field for field, under the
\* subject's own id, however much time has passed and whatever was read or stored
\* for other subjects in between.
C13_RoundTrip ==
    [][ (IsCall("get_consent") /\ ret'.arg \in DOMAIN hist.written) =>
          /\ ret'.val = Some(hist.written[ret'.arg])
          /\ ret'.val[1].employee_id = ret'.arg ]_vars

\* A record set twice is read back at a later time, beside another stored record
C13_Witness ==
    /\ ret.op = "get_consent"
    /\ ret.arg \in DOMAIN hist.written
    /\ ret.val # None
    /\ ret.val[1].last_updated[2] < now
    /\ Cardinality(Places(logs, LAMBDA e : e.action = "set_consent")) >= 2
    /\ Cardinality(DOMAIN consents) >= 2

\* C14 as stated: every record stored by set_consent has
\* expiration_time = last_updated + retention_days exactly, retention_days being the
\* effective retention of that write.
C14_AsStated ==
    \A e \in DOMAIN consents :
        ~Unparsable(consents[e]) =>
            consents[e].expiration_date[2] =
                consents[e].last_updated[2] + consents[e].retention_days * TicksPerDay

\* C15 as stated: the sweep treats a record whose stored expiration_time is
\* unparsable as expired; it removes it and counts it, so no record with an invalid
\* expiration survives a sweep.
C15_AsStated ==
    [][ IsCall("apply_retention_policy") =>
          LET Gone == {e \in DOMAIN consents :
                          Unparsable(consents[e]) \/ HasExpired(consents[e], now)}
          IN  /\ DOMAIN consents' = DOMAIN consents \ Gone
              /\ ret'.val = Cardinality(Gone) ]_vars

\* C16: for a record whose stored expiration_time is unparsable,
\* is_monitoring_allowed returns false and get_all_consents(active_only=True) omits
\* it, and neither read removes or changes any stored record.
C16_InvalidExpirationReads ==
    [][ /\ ( /\ IsCall("is_monitoring_allowed")
             /\ ret'.arg \in DOMAIN consents
             /\ Unparsable(consents[ret'.arg]) )
           => (ret'.val = FALSE /\ consents' = consents /\ fileOrder' = fileOrder)
        /\ (IsCall("get_all_consents") /\ ret'.arg)
           => /\ \A i \in DOMAIN ret'.val : ~Unparsable(ret'.val[i])
              /\ consents' = consents /\ fileOrder' = fileOrder ]_vars

\* An active listing that returned a record while an unparsable one is stored
C16_Witness ==
    /\ ret.op = "get_all_consents"
    /\ ret.arg
    /\ Len(ret.val) >= 1
    /\ \E e \in DOMAIN consents : Unparsable(consents[e])

\* C17: whenever a consent record leaves the store, exactly one delete_consent
\* event of the sweep (user system, resource naming the subject) is already stored;
\* no step removes a record without it. In single-file storage the sweep writes
\* back the all_data it loaded, so a record that a set_consent stored after the
\* load leaves the store with no event.
C17_AsStated ==
    [][ \A k \in DOMAIN consents \ DOMAIN consents' :
          LET IsDeletionOf(e) == /\ e.user_id = "system"
                                 /\ e.action = "delete_consent"
                                 /\ e.resource = <<"employee", k, "consent">>
                                 /\ e.event_id >= loc[Sweeper].first_id
          IN  Cardinality(Places(logs, IsDeletionOf)) = 1 ]_vars

\* The step appends exactly one entry to the audit log, at the end of the current
\* day's partition, and that entry satisfies P; every stored entry stays as it was
AppendsOne(P(_)) ==
    LET today == _get_log_filename(now)
        old   == IF today \in DOMAIN logs THEN logs[today] ELSE <<>>
    IN  /\ DOMAIN logs' = DOMAIN logs \cup {today}
        /\ \A d \in DOMAIN logs \ {today} : logs'[d] = logs[d]
        /\ Len(logs'[today]) = Len(old) + 1
        /\ IsPrefix(old, logs'[today])
        /\ P(logs'[today][Len(old) + 1])

\* The stored line is the set_consent event of the record rec of subject k
IsSetConsentEventOf(ev, k, rec) ==
    /\ "action" \in DOMAIN ev
    /\ ev.action = "set_consent"
    /\ ev.user_id = rec.last_updated_by
    /\ ev.resource = <<"employee", k, "consent">>
    /\ ev.details = [ monitoring_enabled |-> rec.monitoring_enabled,
                      retention_days     |-> rec.retention_days,
                      data_categories    |-> rec.data_categories ]
    /\ ev.timestamp = rec.last_updated

\* C18 as stated: every successful set_consent appends exactly one audit event, with
\* action set_consent, user = requester_id, resource naming the subject, and details
\* holding the new monitoring_enabled, the effective retention_days and the
\* data_categories; consequently every consent record that set_consent has put into
\* the store has a matching set_consent event recorded for its last write.
C18_AsStated ==
    [][ /\ (IsCall("set_consent") /\ ~ret'.raised) =>
              LET e   == ret'.arg
                  a   == ret'.args
                  rec == consents'[e]
              IN  /\ rec.monitoring_enabled = a.monitoring_enabled
                  /\ rec.last_updated_by = a.requester_id
                  /\ rec.retention_days =
                        (IF a.data_retention_days # None THEN a.data_retention_days[1]
                         ELSE IF a.retention_days # None THEN a.retention_days[1]
                         ELSE 90)
                  /\ AppendsOne(LAMBDA ev : IsSetConsentEventOf(ev, e, rec))
        /\ \A k \in DOMAIN readable(consents)' \cap DOMAIN hist'.written :
              \E d \in DOMAIN logs' : \E i \in DOMAIN logs'[d] :
                 IsSetConsentEventOf(logs'[d][i], k, consents'[k]) ]_vars

\* C19: get_consent returns None, and writes no audit event, when no record is
\* stored for the subject; otherwise it returns the stored record and appends exactly
\* one access_consent event for that subject.  The store is left as it was.
C19_GetConsent ==
    [][ IsCall("get_consent") =>
          LET e == ret'.arg
              IsAccess(ev) == /\ ev.action = "access_consent"
                              /\ ev.resource = <<"employee", e, "consent">>
          IN  /\ consents' = consents
              /\ IF e \in DOMAIN consents
                 THEN ret'.val = Some(consents[e]) /\ AppendsOne(IsAccess)
                 ELSE ret'.val = None /\ logs' = logs /\ nextId' = nextId ]_vars

\* A lookup of a subject without a record, after a lookup that found a record
C19_Witness ==
    /\ ret.op = "get_consent"
    /\ ret.val = None
    /\ consents # EmptyDict
    /\ Places(logs, LAMBDA e : e.action = "access_consent") # {}

\* C20: one record per subject, replaced entirely.  After set_consent the subject's
\* record is, field by field, what the call's arguments, the defaults and the clock
\* give, whatever was stored before; every other subject's record is as it was, and
\* the single file lists each stored subject once.
C20_ReplacedEntirely ==
    [][ IsCall("set_consent") =>
          LET e == ret'.arg
              a == ret'.args
              r == IF a.data_retention_days # None THEN a.data_retention_days[1]
                   ELSE IF a.retention_days # None THEN a.retention_days[1]
                   ELSE 90
              Expected ==
                  [ employee_id         |-> e,
                    monitoring_enabled  |-> a.monitoring_enabled,
                    retention_days      |-> r,
                    data_retention_days |-> r,
                    allow_analytics     |-> IF a.allow_analytics = None THEN TRUE
                                            ELSE a.allow_analytics[1],
                    expiration_date     |-> <<"iso", now + r * TicksPerDay>>,
                    data_categories     |-> IF a.data_categories \in {None, Some(<<>>)}
                                            THEN <<"all">> ELSE a.data_categories[1],
                    last_updated        |-> <<"iso", now>>,
                    last_updated_by     |-> a.requester_id ]
          IN  /\ consents' = [k \in DOMAIN consents \cup {e} |->
                                 IF k = e THEN Expected ELSE consents[k]]
              /\ singleFile =>
                    /\ {fileOrder'[i] : i \in DOMAIN fileOrder'} = DOMAIN consents'
                    /\ Len(fileOrder') = Cardinality(DOMAIN consents') ]_vars

\* A set_consent that replaced a record set with another monitoring_enabled and
\* other data_categories
C20_Witness ==
    /\ ret.op = "set_consent"
    /\ \E h \in Places(logs, LAMBDA e : e.action = "set_consent"
                                         /\ e.resource = <<"employee", ret.arg, "consent">>) :
          LET d == logs[h[1]][h[2]].details
          IN  /\ d.monitoring_enabled # ret.val.monitoring_enabled
              /\ d.data_categories # ret.val.data_categories

\* C21: set_consent for a subject A, get_consent, is_monitoring_allowed and
\* get_all_consents never remove or alter the stored record of another subject B, in
\* either storage mode and also when the stored content cannot be read or parsed
C21_AsStated ==
    [][ (ret'.op \in {"set_consent", "get_consent", "is_monitoring_allowed",
                      "get_all_consents"} /\ now' = now)
        => \A B \in DOMAIN consents :
              (ret'.op = "set_consent" => B # ret'.arg)
              => B \in DOMAIN consents' /\ consents'[B] = consents[B] ]_vars

\* C22: the lifecycle of a record is absent, active, expired, absent.  Once more than
\* the retention has passed since the last set_consent of a subject, with no
\* set_consent since, is_monitoring_allowed of the subject is false; the next
\* apply_retention_policy removes the subject and counts it; and from then on
\* get_consent of the subject returns nothing, until the next set_consent of it.
\* (hist.written holds, per subject, the record of its last set_consent since the
\* last sweep that removed it.)
C22_Lifecycle ==
    [][ LET Due == {s \in DOMAIN hist.written : HasExpired(hist.written[s], now)}
        IN  /\ (IsCall("is_monitoring_allowed") /\ ret'.arg \in Due)
                  => ret'.val = FALSE
            /\ IsCall("apply_retention_policy")
                  => /\ ret'.val = Cardinality(Due)
                     /\ DOMAIN consents' = DOMAIN consents \ Due
                     /\ DOMAIN hist'.written = DOMAIN hist.written \ Due
            /\ (IsCall("get_consent") /\ ret'.arg \notin DOMAIN hist.written)
                  => ret'.val = None /\ ret'.arg \notin DOMAIN consents' ]_vars

\* A subject was set, found expired by is_monitoring_allowed, swept, and then read
\* as absent
C22_Witness ==
    /\ ret.op = "get_consent"
    /\ ret.val = None
    /\ LET About(ev) == ev.resource = <<"employee", ret.arg, "consent">>
       IN  /\ Places(logs, LAMBDA ev : About(ev) /\ ev.action = "set_consent") # {}
           /\ Places(logs, LAMBDA ev : About(ev) /\ ev.action = "access_consent") # {}
           /\ Places(logs, LAMBDA ev : About(ev) /\ ev.action = "delete_consent") # {}

\* The filter a query asks for under the given name, as an argument or in filters
Asked(a, key) ==
    IF a.filters # None /\ key \in DOMAIN a.filters[1]
    THEN Some(a.filters[1][key]) ELSE a[key]

\* The places of the stored entries a query asks for: those of a partition dated
\* from start_date to end_date, both included, with the user_id and action asked for
Matching(a) ==
    { p \in Places(logs, LAMBDA e : TRUE) :
        /\ Asked(a, "start_date") # None => p[1] >= Asked(a, "start_date")[1]
        /\ Asked(a, "end_date") # None => p[1] <= Asked(a, "end_date")[1]
        /\ Asked(a, "user_id") # None =>
              DictGet(logs[p[1]][p[2]], "user_id") = Asked(a, "user_id")
        /\ Asked(a, "action") # None =>
              DictGet(logs[p[1]][p[2]], "action") = Asked(a, "action") }

\* C23: get_logs returns at most limit entries; each is a stored entry of a partition
\* whose date lies from start_date to end_date, both included and each optional, and
\* has the user_id and action asked for; when fewer than limit entries match, all of
\* them are returned.
C23_QueryFilters ==
    [][ IsCall("get_logs") =>
          LET a   == ret'.args
              val == ret'.val
          IN  /\ ~ret'.raised
              /\ Len(val) <= a.limit
              /\ \A k \in DOMAIN val : \E p \in Matching(a) : val[k] = logs[p[1]][p[2]]
              /\ Cardinality(Matching(a)) < a.limit =>
                    /\ Len(val) = Cardinality(Matching(a))
                    /\ \A p \in Matching(a) : \E k \in DOMAIN val :
                           val[k] = logs[p[1]][p[2]] ]_vars

\* A query of one day returned that day's entries, all of them under the limit, and
\* left out the entries of the day before and of the day after
C23_Witness ==
    /\ ret.op = "get_logs"
    /\ ret.args.start_date = Some(QueryDay)
    /\ ret.args.end_date = Some(QueryDay)
    /\ Len(ret.val) >= 1
    /\ Len(ret.val) < ret.args.limit
    /\ \E d \in DOMAIN logs : d < QueryDay
    /\ \E d \in DOMAIN logs : d > QueryDay

\* The entries at the given places, oldest partition first and in append order
\* within a partition
RECURSIVE InStoredOrder(_)
InStoredOrder(P) ==
    IF P = {} THEN <<>>
    ELSE LET first == CHOOSE p \in P :
                         \A q \in P : p[1] < q[1] \/ (p[1] = q[1] /\ p[2] <= q[2])
         IN  <<logs[first[1]][first[2]]>> \o InStoredOrder(P \ {first})

\* The first n elements of a sequence, or all of it when it is shorter
FirstN(seq, n) == SubSeq(seq, 1, IF n < Len(seq) THEN n ELSE Len(seq))

\* C24 as stated: get_logs returns the matching entries oldest partition first and in
\* append order within a partition, and stops at limit: the result is exactly the
\* first limit matching entries in that order.
C24_AsStated ==
    [][ IsCall("get_logs") =>
          ret'.val = FirstN(InStoredOrder(Matching(ret'.args)), ret'.args.limit) ]_vars

\* C25 as stated: a stored line that is not an audit entry (text that does not parse,
\* a blank line, a parseable value that is not an entry) never makes get_logs fail;
\* it is skipped, and the well-formed matching entries before and after it are
\* still returned.
C25_AsStated ==
    [][ IsCall("get_logs") =>
          LET a    == ret'.args
              val  == ret'.val
              Good == {p \in Matching(a) : logs[p[1]][p[2]] \notin MalformedLines}
          IN  /\ ~ret'.raised
              /\ \A k \in DOMAIN val : val[k] \notin MalformedLines
              /\ Cardinality(Good) < a.limit =>
                    \A p \in Good : \E k \in DOMAIN val : val[k] = logs[p[1]][p[2]] ]_vars

\* C26 as stated: each successful log_event adds exactly one entry to the partition
\* of the current date; the entry's user_id, action, resource, status and details are
\* the arguments (details the empty mapping when omitted), and its event_id is the
\* value the call returns.
C26_AsStated ==
    [][ (IsCall("log_event") /\ ~ret'.raised) =>
          AppendsOne(LAMBDA e :
              /\ e.user_id = ret'.arg.user_id
              /\ e.action = ret'.arg.action
              /\ e.resource = ret'.arg.resource
              /\ e.status = ret'.arg.status
              /\ e.details = (IF ret'.arg.details = None THEN EmptyDict
                              ELSE ret'.arg.details[1])
              /\ Some(e.event_id) = ret'.val) ]_vars

\* C27: storage write failures are never swallowed.  When the append of the audit
\* entry fails, log_event raises and returns no event_id; when the write of the
\* consent record fails, set_consent raises and neither reports success nor returns
\* a record; and when the append of set_consent's audit entry fails, set_consent
\* raises as well.
C27_WriteFailuresRaise ==
    [][ /\ (IsCall("log_event") /\ ~ret'.io.write_ok)
              => ret'.raised /\ ret'.val = None
        /\ (IsCall("set_consent") /\ ~ret'.io.write_ok)
              => ret'.raised /\ ret'.val = None
        /\ (IsCall("set_consent") /\ ~ret'.io.log_ok)
              => ret'.raised /\ ret'.val = None ]_vars

\* A set_consent has raised because the write of the store failed after the open:
\* the file that held the subject's record does not parse now
C27_Witness ==
    /\ ret.op = "set_consent"
    /\ ret.raised
    /\ ~ret.io.write_ok
    /\ ret.io.kept # None
    /\ ret.arg \in DOMAIN consents
    /\ Truncated(ret.arg)
    /\ nextId > 0

\* C28 as stated: a write is atomic for the readers.  A get_consent that overlaps a
\* set_consent returns the record the store held before the write or the record
\* being written, never a truncated one; in particular a subject whose record is
\* stored is never reported absent because the record is being rewritten.
C28_AsStated ==
    [][ IsCall("get_consent") =>
          \/ ret'.val = get_consent(consents, ret'.arg)
          \/ \E c \in Setters :
                /\ pc[c] = "opened"
                /\ loc[c].employee_id = ret'.arg
                /\ ret'.val = Some(loc[c].rec) ]_vars

\* The stored summary events of the retention worker
Summaries(L) ==
    Places(L, LAMBDA e : "action" \in DOMAIN e /\ e.action = "daily_retention")

\* The order of the steps of a run: the consent sweep first; the prune next, after
\* the sweep has returned, with the configured retention days; the summary last,
\* after the prune has returned, with the two counts those calls returned; and no
\* other step of the worker records a summary
StepsInOrder ==
    /\ (pc[Worker] = "ready" /\ pc'[Worker] = "swept")
          => /\ ret'.op = "apply_retention_policy"
             /\ loc'[Worker].consent_deleted = ret'.val
             /\ Summaries(logs') = Summaries(logs)
    /\ (pc[Worker] # "pruned" /\ pc'[Worker] = "pruned")
          => /\ pc[Worker] = "swept"
             /\ ret.op = "apply_retention_policy"
             /\ ret.val = loc[Worker].consent_deleted
             /\ ret'.op = "cleanup_old_logs"
             /\ ret'.retention_days = loc[Worker].retention_days
             /\ Cardinality(Summaries(logs')) <= Cardinality(Summaries(logs))
    /\ (pc[Worker] = "pruned" /\ pc'[Worker] = "summarised")
          => /\ ret.op = "cleanup_old_logs"
             /\ Cardinality(Summaries(logs')) = Cardinality(Summaries(logs)) + 1
             /\ AppendsOne(LAMBDA e :
                    /\ e.action = "daily_retention"
                    /\ e.user_id = "system"
                    /\ e.details.consent_records_deleted
                          = loc[Worker].consent_deleted
                    /\ e.details.log_files_deleted = ret.val)
    /\ Cardinality(Summaries(logs')) > Cardinality(Summaries(logs))
          => pc[Worker] = "pruned" /\ pc'[Worker] \in {"summarised", "failed"}

Runs == 1..(MaxNow \div TicksPerDay + 1)

\* C30: a failure in any step of a sweep does not stop the periodic task.  After a
\* sweep that raised, whichever call raised, the failure is caught, the worker
\* sleeps, and it begins the next sweep when the day has passed; the model's clock
\* stops at MaxNow, so a sleep that ends later than that does not end in the model.
C30_NextSweepStarts ==
    \A n \in Runs :
        (pc[Worker] = "failed" /\ loc[Worker].runs = n)
        ~> \/ pc[Worker] # "idle" /\ loc[Worker].runs = n + 1
           \/ pc[Worker] = "sleeping" /\ loc[Worker].wake > MaxNow

\* A sweep is under way after an earlier sweep of the worker raised, the clock
\* having passed the end of the sleep that followed it
C30_Witness ==
    /\ pc[Worker] = "swept"
    /\ loc[Worker].failed >= 1
    /\ loc[Worker].runs > loc[Worker].failed
    /\ now > loc[Worker].wake
    /\ ret.op = "apply_retention_policy"

\* The sequence lists each record of the set once and nothing else
ListsExactly(val, Recs) ==
    /\ Len(val) = Cardinality(Recs)
    /\ {val[i] : i \in DOMAIN val} = Recs

\* C31: get_all_consents(active_only=True) returns exactly the stored records whose
\* expiration parses and has not passed (now <= expiration); with active_only=False,
\* and list_consents, return every stored record, one per subject, the expired ones
\* included.
C31_Listings ==
    [][ LET All    == {consents[e] : e \in DOMAIN consents}
            Active == {consents[e] : e \in {k \in DOMAIN consents :
                          ~Unparsable(consents[k]) /\ ~HasExpired(consents[k], now)}}
        IN  /\ (IsCall("get_all_consents") /\ ret'.arg)
                  => ListsExactly(ret'.val, Active)
            /\ (IsCall("get_all_consents") /\ ~ret'.arg)
                  => ListsExactly(ret'.val, All)
            /\ IsCall("list_consents") => ListsExactly(ret'.val, All) ]_vars

\* A listing of the active records returned the one active record of a store that
\* also holds an expired one
C31_Witness ==
    /\ ret.op = "get_all_consents"
    /\ ret.arg
    /\ Len(ret.val) = 1
    /\ \E e \in DOMAIN consents : ~Unparsable(consents[e]) /\ HasExpired(consents[e], now)
    /\ \E e \in DOMAIN consents : ret.val[1] = consents[e]

\* C32: the retention stored by set_consent is data_retention_days when given, else
\* retention_days when given, else the default of 90; the stored retention_days and
\* data_retention_days both hold that value, and the expiration is the time of the
\* call plus that many days.
C32_RetentionStored ==
    [][ IsCall("set_consent") =>
          LET a   == ret'.args
              r   == IF a.data_retention_days # None THEN a.data_retention_days[1]
                     ELSE IF a.retention_days # None THEN a.retention_days[1]
                     ELSE 90
              rec == consents'[ret'.arg]
          IN  /\ rec.retention_days = r
              /\ rec.data_retention_days = r
              /\ rec.expiration_date = isoformat(now + r * TicksPerDay) ]_vars

\* A set_consent given both arguments stored the legacy one, over the record an
\* earlier call had stored with the default
C32_Witness ==
    /\ ret.op = "set_consent"
    /\ ret.args.retention_days = Some(2)
    /\ ret.args.data_retention_days = Some(1)
    /\ consents[ret.arg].retention_days = 1
    /\ Places(logs, LAMBDA e : e.action = "set_consent"
                               /\ e.details.retention_days = 90) # {}

\* C33: given an external logger, apply_retention_policy calls
\* external_logger.apply_retention_policy(subject, the record's retention days) once
\* for every stored record whose expiration parses, and returns success with
\* policies_applied the number of those calls that did not fail, not the deleted
\* count.
C33_ExternalLogger ==
    [][ IsCall("apply_retention_policy_external") =>
          LET Valid == {e \in DOMAIN consents : ~Unparsable(consents[e])}
              calls == ret'.calls
          IN  /\ Len(calls) = Cardinality(Valid)
              /\ {calls[i][1] : i \in DOMAIN calls} = Valid
              /\ \A i \in DOMAIN calls :
                    calls[i][2] = consents[calls[i][1]].retention_days
              /\ ret'.val = [success |-> TRUE,
                             policies_applied |-> Cardinality(Valid \ ret'.fails)] ]_vars

\* A sweep with an external logger made two calls, one of which failed, and
\* removed an expired record
C33_Witness ==
    /\ ret.op = "apply_retention_policy_external"
    /\ Len(ret.calls) = 2
    /\ ret.val.policies_applied = 1
    /\ Cardinality(DOMAIN consents) = 1
    /\ Places(logs, LAMBDA e : e.action = "delete_consent") # {}

\* C34: set_consent is all-or-nothing: whenever the call raises, the record having
\* been written and the 'set_consent' event having failed included, the consent
\* store holds the same records as before the call.
C34_AsStated ==
    [][ IsCall("set_consent") /\ ret'.raised
          => readable(consents)' = readable(consents) ]_vars

\* C35: get_consent never raises: a failure while reading the stored record or while
\* recording the 'access_consent' event is caught and the call returns None, and
\* is_monitoring_allowed then returns false, also for a subject whose record exists
\* and is valid.
C35_ReadFailuresCaught ==
    [][ LET failed == ~ret'.io.load_ok
                        \/ (ret'.arg \in DOMAIN consents /\ ~ret'.io.log_ok)
        IN  /\ IsCall("get_consent") =>
                  /\ ~ret'.raised
                  /\ failed => ret'.val = None
            /\ IsCall("is_monitoring_allowed") =>
                  /\ ~ret'.raised
                  /\ failed => ret'.val = FALSE ]_vars

\* get_consent returned None for a stored, valid, unexpired record because the
\* access_consent event could not be written
C35_Witness ==
    /\ ret.op = "get_consent"
    /\ ret.val = None
    /\ ret.io.load_ok /\ ~ret.io.log_ok
    /\ ret.arg \in DOMAIN consents
    /\ is_monitoring_allowed(Some(consents[ret.arg]), now)

\* C36 as stated: cleanup_old_logs deletes a partition only after its deletion event
\* was written: every deleted partition has its deletion event in the log, a
\* partition whose event fails with a storage error is kept and not counted, the
\* error is not propagated, the prune goes on with the remaining partitions, and a
\* partition whose file name carries an unparsable date is never deleted.
C36_AsStated ==
    [][ IsCall("cleanup_old_logs") =>
          LET cutoff  == now - ret'.retention_days * TicksPerDay
              Old     == {f \in DOMAIN logs : file_date(f) # None /\ is_old(f, cutoff)}
              Deleted == Old \ ret'.fails
              today   == _get_log_filename(now)
          IN  /\ ~ret'.raised
              /\ ret'.val = Cardinality(Deleted)
              /\ \A f \in DOMAIN logs \ Deleted : f \in DOMAIN logs'
              /\ \A f \in Deleted : f \in DOMAIN logs' => f = today
              /\ today \notin Deleted =>
                    \A f \in Deleted :
                       \E i \in DOMAIN logs'[today] :
                          /\ "action" \in DOMAIN logs'[today][i]
                          /\ logs'[today][i].action = "delete"
                          /\ logs'[today][i].resource = <<"audit_log", f>>
                          /\ logs'[today][i].event_id >= nextId ]_vars

\* C37: is_monitoring_allowed is not a pure read of the audit log: a call for a
\* subject that has a record appends exactly one 'access_consent' event whatever
\* value it returns, a call for a subject without a record appends none, and no call
\* changes the consent store.
C37_MonitoringCheckAudited ==
    [][ IsCall("is_monitoring_allowed") =>
          /\ consents' = consents
          /\ fileOrder' = fileOrder
          /\ IF ret'.arg \in DOMAIN consents
             THEN AppendsOne(LAMBDA e : /\ e.action = "access_consent"
                                       /\ e.resource = <<"employee", ret'.arg, "consent">>)
             ELSE logs' = logs ]_vars

\* is_monitoring_allowed denied a stored subject and left an access_consent event
\* for it as the last entry of the day
C37_Witness ==
    /\ ret.op = "is_monitoring_allowed"
    /\ ret.val = FALSE
    /\ ret.arg \in DOMAIN consents
    /\ _get_log_filename(now) \in DOMAIN logs
    /\ LET today == logs[_get_log_filename(now)]
       IN  /\ today[Len(today)].action = "access_consent"
           /\ today[Len(today)].resource = <<"employee", ret.arg, "consent">>

\* C38: the three readers judge expiry alike.  For every stored record whose
\* expiration parses and every clock value, is_monitoring_allowed denies a record
\* that enables monitoring exactly when now > expiration, the active listing omits
\* the record exactly when now > expiration, and the sweep deletes it exactly when
\* now > expiration; at now = expiration the record is active and is not deleted.
C38_ExpiryAlike ==
    [][ LET Valid == {e \in DOMAIN consents : ~Unparsable(consents[e])}
        IN  /\ (IsCall("is_monitoring_allowed") /\ ret'.arg \in Valid
                   /\ consents[ret'.arg].monitoring_enabled)
                  => (ret'.val = FALSE <=> HasExpired(consents[ret'.arg], now))
            /\ (IsCall("get_all_consents") /\ ret'.arg)
                  => \A e \in Valid :
                        (\A i \in DOMAIN ret'.val : ret'.val[i] # consents[e])
                           <=> HasExpired(consents[e], now)
            /\ IsCall("apply_retention_policy")
                  => \A e \in Valid :
                        e \notin DOMAIN consents' <=> HasExpired(consents[e], now) ]_vars

\* At now = expiration the record was allowed and is still stored
C38_Witness ==
    /\ ret.op = "is_monitoring_allowed"
    /\ ret.val = TRUE
    /\ ret.arg \in DOMAIN consents
    /\ consents[ret.arg].expiration_date = isoformat(now)

\* C39: the consent sweep is idempotent at a fixed time: run again with no clock
\* advance and no set_consent in between, apply_retention_policy returns 0, removes
\* nothing, leaves the consent store as it is and records no further
\* 'delete_consent' event.  (The second run is the loop of the sweep applied to the
\* state the first run left, in every order the store can be listed.)
C39_SweepIdempotent ==
    [][ IsCall("apply_retention_policy") =>
          \A keys \in (IF singleFile' THEN {fileOrder'}
                       ELSE ScanOrders(DOMAIN consents')) :
             LET again == retention_loop([logs |-> logs', id |-> nextId',
                                          consents |-> consents', order |-> fileOrder',
                                          count |-> 0], keys, now')
             IN  /\ again.count = 0
                 /\ again.consents = consents'
                 /\ again.order = fileOrder'
                 /\ again.logs = logs'
                 /\ again.id = nextId' ]_vars

\* A sweep removed an expired record and left a record in the store
C39_Witness ==
    /\ ret.op = "apply_retention_policy"
    /\ ret.val = 1
    /\ DOMAIN consents # {}
    /\ Cardinality(Places(logs, LAMBDA e : e.action = "delete_consent")) = 1

====
